---- MODULE Spec2Model ----
(***************************************************************************)
(* Codebase Onboarder: the repository ingestion pipeline                   *)
(* (GitHubService.ingestRepository over the relational, key-value, blob    *)
(* and vector stores) and the learner-session state machine                *)
(* (TutorialService.startSession / nextStep / previousStep /               *)
(* completeSession).                                                       *)
(*                                                                         *)
(* Every await of the source is a suspension point, so each action is one  *)
(* storage or network operation together with the synchronous code that    *)
(* follows it up to the next await.  Storage writes and GitHub requests    *)
(* may fail at any call; storage reads are reliable.  Key-value entries    *)
(* are observed within their time-to-live.                                 *)
(***************************************************************************)
EXTENDS Bags, FiniteSets, Integers, Sequences, TLC

(* ----------------------------- bounds ---------------------------------- *)
\* concurrent / successive ingestRepository calls
NumCalls == 2
\* commits in the upstream listing of repository o/r
NumUpstream == 4
\* steps of the longest tutorial
MaxSteps == 2
\* learner sessions started
NumSessions == 1
\* nextStep / previousStep calls in flight at once
NumOps == 2
\* seconds the database clock advances
MaxClock == 1
\* upstream commits of repository o/b newer than its last ingest, at most
NumFresh == 2
\* generateTutorial calls
NumGens == 2
\* cloneRepository calls
NumClones == 1
NumRefreshes == 1
NumLearners == 2

(* ------------------------ program constants ---------------------------- *)
DefaultCommitLimit == 50
DefaultLearningLimit == 20
GitHubMaxPerPage == 100
BulkFileLimit == 15
MinLinesChanged == 5
MaxLinesChanged == 500
FixMinLines == 10
FixMaxFiles == 5
RefactorMaxFiles == 8
RefactorMaxLines == 200
MinMessageLength == 10
CommitsByRepoLimit == 50
DefaultRefreshLimit == 20

VARIABLES
    repositories,   \* D1 table repositories: bag of rows
    commits,        \* D1 table commits: bag of rows
    kv,             \* KV namespace: key -> value
    r2,             \* R2 bucket: key -> object
    vectors,        \* Vectorize index: set of vector ids
    calls,          \* the ingestRepository calls: locals and position of each
    tutorials,      \* D1 table tutorials: bag of rows
    learner_sessions, \* D1 table learner_sessions: rows in creation order
    now,            \* CURRENT_TIMESTAMP of the database
    ops,            \* the nextStep / previousStep calls in flight: bag of call records
    walk,           \* per session: nextStep calls completed one after another
                    \* since startSession, or -1 once anything else touched it
    refreshes,      \* the refreshRepository calls: locals and position of each
    gens,           \* the generateTutorial calls: locals and position of each
    clones,         \* the cloneRepository calls: locals and position of each
    args,           \* the arguments of the call last made, where a call is one step
    returned        \* what that call returned or threw

ingestVars == <<repositories, commits, kv, vectors, calls>>
sessionVars == <<tutorials, learner_sessions, now, ops, walk>>
taskVars == <<refreshes, gens, clones>>
callVars == <<args, returned>>
vars == <<repositories, commits, kv, r2, vectors, calls,
          tutorials, learner_sessions, now, ops, walk, refreshes, gens, clones,
          args, returned>>

Calls == 1..NumCalls

Null == <<>>
Some(x) == <<x>>

Min(a, b) == IF a < b THEN a ELSE b

(* ------------------------- repository URLs ----------------------------- *)
\* A URL is the text  <prefix> owner "/" repo <".git" if git>.
HttpsUrl(owner, repo, git) ==
    [prefix |-> "https://github.com/", owner |-> owner, repo |-> repo, git |-> git]

Urls ==
    { HttpsUrl("o", "r", FALSE), HttpsUrl("o", "s", FALSE),
      [prefix |-> "git@github.com:", owner |-> "o", repo |-> "r", git |-> TRUE],
      [prefix |-> "https://gitlab.com/", owner |-> "o", repo |-> "r", git |-> FALSE] }

parseRepositoryUrl(u) ==
    IF u.prefix \in {"https://github.com/", "http://github.com/",
                     "git@github.com:", "github.com/"}
    THEN [owner |-> u.owner, repo |-> u.repo, isValid |-> TRUE, error |-> ""]
    ELSE [owner |-> "", repo |-> "", isValid |-> FALSE,
          error |-> "Invalid GitHub URL format"]

(* --------------------------- GitHub commits ---------------------------- *)
\* A message is its length and the set of probed substrings it contains.
File(ext, has, additions, deletions) ==
    [ext |-> ext, has |-> has, additions |-> additions, deletions |-> deletions]

SrcFiles == << File("ts", {}, 20, 5), File("ts", {}, 10, 0), File("tsx", {}, 5, 0) >>
DocFiles == << File("md", {"readme"}, 30, 2) >>

\* the k-th commit of the upstream listing (most recent first)
CommitAt(k) ==
    CASE k % 4 = 1 ->
           [sha |-> k, date |-> 0 - k, message |-> [len |-> 20, has |-> {"add"}, semver |-> FALSE],
            files |-> Some(SrcFiles)]
      [] k % 4 = 2 ->
           [sha |-> k, date |-> 0 - k, message |-> [len |-> 8, has |-> {"fix"}, semver |-> FALSE],
            files |-> Some(SrcFiles)]
      [] k % 4 = 3 ->
           [sha |-> k, date |-> 0 - k, message |-> [len |-> 25, has |-> {"refactor", "clean"}, semver |-> FALSE],
            files |-> Null]
      [] OTHER ->
           [sha |-> k, date |-> 0 - k, message |-> [len |-> 18, has |-> {"doc", "readme"}, semver |-> FALSE],
            files |-> Some(DocFiles)]

\* the k-th commit of the upstream listing of o/b: features with files and
\* documentation commits alternate, every message passes the listing filter
BigCommitAt(k) ==
    [CommitAt(IF k % 2 = 1 THEN 1 ELSE 4) EXCEPT !.sha = k, !.date = 0 - k]

\* o/b has as many commits as one getCommitsByRepo page and NumFresh more
NumBig == CommitsByRepoLimit + NumFresh

\* the commit listing GitHub serves for a repository, most recent first:
\* o/r has NumUpstream commits, o/b NumBig, every other repository a single
\* short-message one
Upstream(owner, repo) ==
    IF owner = "o" /\ repo = "r"
    THEN [k \in 1..NumUpstream |-> CommitAt(k)]
    ELSE IF owner = "o" /\ repo = "b"
    THEN [k \in 1..NumBig |-> BigCommitAt(k)]
    ELSE << CommitAt(2) >>

(* ------------------------- CommitAnalyzer ------------------------------ *)
RECURSIVE SumLines(_)
SumLines(files) ==
    IF files = <<>> THEN 0
    ELSE Head(files).additions + Head(files).deletions + SumLines(Tail(files))

getTotalLinesChanged(files) == SumLines(files)

IsConfigFile(f) ==
    \/ f.ext \in {"json", "yml", "yaml", "toml", "ini", "config"}
    \/ f.has \cap {"package.json", "package-lock.json", "yarn.lock",
                   ".gitignore", "dockerfile"} # {}

\* mutant: only the extension makes a configuration file
hasOnlyConfigFilesByExtension(files) ==
    \A n \in 1..Len(files) :
        files[n].ext \in {"json", "yml", "yaml", "toml", "ini", "config"}

hasOnlyConfigFiles(files) == \A n \in 1..Len(files) : IsConfigFile(files[n])

IsTestFile(f) == f.has \cap {"test", "spec", "__tests__"} # {}

hasMainlyTestFiles(files) == 10 * Len(SelectSeq(files, IsTestFile)) > 7 * Len(files)

IsDocFile(f) == f.ext \in {"md", "txt", "rst"} \/ "readme" \in f.has

hasMainlyDocFiles(files) == 10 * Len(SelectSeq(files, IsDocFile)) > 7 * Len(files)

isVersionBump(message) ==
    message.semver /\ message.has \cap {"bump", "release", "version"} # {}

\* mutant: the fix keywords are looked for before the feature keywords
categorizeCommitFixFirst(message, files) ==
    IF message.has \cap {"fix", "bug", "resolve"} # {} THEN "fix"
    ELSE IF message.has \cap {"add", "feat", "implement"} # {} THEN "feature"
    ELSE IF message.has \cap {"refactor", "improve", "clean"} # {} THEN "refactor"
    ELSE IF "test" \in message.has \/ hasMainlyTestFiles(files) THEN "test"
    ELSE IF message.has \cap {"doc", "readme"} # {} \/ hasMainlyDocFiles(files) THEN "docs"
    ELSE "other"

categorizeCommit(message, files) ==
    IF message.has \cap {"add", "feat", "implement"} # {} THEN "feature"
    ELSE IF message.has \cap {"fix", "bug", "resolve"} # {} THEN "fix"
    ELSE IF message.has \cap {"refactor", "improve", "clean"} # {} THEN "refactor"
    ELSE IF "test" \in message.has \/ hasMainlyTestFiles(files) THEN "test"
    ELSE IF message.has \cap {"doc", "readme"} # {} \/ hasMainlyDocFiles(files) THEN "docs"
    ELSE "other"

\* mutant: a fix needs more than FixMinLines lines
CategoryWorthyStrictFix(category, nfiles, lines) ==
    CASE category = "feature" -> TRUE
      [] category = "fix" -> lines > FixMinLines /\ nfiles <= FixMaxFiles
      [] category = "refactor" -> nfiles <= RefactorMaxFiles /\ lines <= RefactorMaxLines
      [] category = "test" -> TRUE
      [] OTHER -> FALSE

CategoryWorthy(category, nfiles, lines) ==
    CASE category = "feature" -> TRUE
      [] category = "fix" -> lines >= FixMinLines /\ nfiles <= FixMaxFiles
      [] category = "refactor" -> nfiles <= RefactorMaxFiles /\ lines <= RefactorMaxLines
      [] category = "test" -> TRUE
      [] OTHER -> FALSE

\* mutant: the line-count checks run before the bulk check
SizeRejectionLinesFirst(nfiles, lines) ==
    IF lines < MinLinesChanged THEN "Very small change"
    ELSE IF lines > MaxLinesChanged THEN "Too many lines changed (likely auto-generated)"
    ELSE IF nfiles > BulkFileLimit THEN "Too many files changed (bulk operation)"
    ELSE ""

\* lines 28-41: the reason of the early return, "" when the commit passes
SizeRejection(nfiles, lines) ==
    IF nfiles > BulkFileLimit THEN "Too many files changed (bulk operation)"
    ELSE IF lines < MinLinesChanged THEN "Very small change"
    ELSE IF lines > MaxLinesChanged THEN "Too many lines changed (likely auto-generated)"
    ELSE ""

\* lines 45-72: the reason the switch on the category leaves
CategoryReason(category, worthy) ==
    CASE category = "feature" -> "Adds new functionality"
      [] category = "fix" -> IF worthy THEN "Substantial bug fix" ELSE "Small bug fix"
      [] category = "refactor" ->
           IF worthy THEN "Code improvement/refactor" ELSE "Large refactor (too complex)"
      [] category = "test" -> "Adds or improves tests"
      [] OTHER -> "Not a clear feature/improvement"

analyzeCommit(commit) ==
    LET files == IF commit.files = Null THEN <<>> ELSE commit.files[1]
        lines == getTotalLinesChanged(files)
        base == [sha |-> commit.sha, isLearningWorthy |-> FALSE,
                 category |-> "other", reason |-> "", linesChanged |-> lines]
        category == categorizeCommit(commit.message, files)
        worthy == CategoryWorthy(category, Len(files), lines)
        switched == [base EXCEPT !.category = category, !.isLearningWorthy = worthy,
                                 !.reason = CategoryReason(category, worthy)]
        configChecked ==
            IF hasOnlyConfigFiles(files)
            THEN [switched EXCEPT !.isLearningWorthy = FALSE,
                                  !.reason = "Only configuration changes"]
            ELSE switched
    IN  IF SizeRejection(Len(files), lines) # ""
        THEN [base EXCEPT !.reason = SizeRejection(Len(files), lines)]
        ELSE IF isVersionBump(commit.message)
        THEN [configChecked EXCEPT !.isLearningWorthy = FALSE, !.reason = "Version bump"]
        ELSE configChecked

analyzeCommits(cs) == [n \in 1..Len(cs) |-> analyzeCommit(cs[n])]

convertToDbCommit(gitHubCommit, repoId) ==
    [id |-> <<repoId, gitHubCommit.sha>>, repo_id |-> repoId,
     sha |-> gitHubCommit.sha, message |-> gitHubCommit.message,
     date |-> gitHubCommit.date]

(* --------------------------- GitHubClient ------------------------------ *)
\* mutant: every merge commit is removed
KeepsCommitNoMerges(c) ==
    LET has == c.message.has
    IN  /\ ~("merge" \in has)
        /\ ~(c.message.len < MinMessageLength)
        /\ ~("update" \in has /\ has \cap {"dependency", "package"} # {})
        /\ has \cap {"format", "style", "lint"} = {}

KeepsCommit(c) ==
    LET has == c.message.has
    IN  /\ ~("merge" \in has /\ has \cap {"pull request", "branch"} # {})
        /\ ~(c.message.len < MinMessageLength)
        /\ ~("update" \in has /\ has \cap {"dependency", "package"} # {})
        /\ has \cap {"format", "style", "lint"} = {}

filterLearningCommits(cs) == SelectSeq(cs, KeepsCommit)

\* getCommits: the first per_page commits of the upstream listing
getCommits(owner, repo, perPage) ==
    SubSeq(Upstream(owner, repo), 1, Min(perPage, Len(Upstream(owner, repo))))

getLearningCommits(owner, repo, limitOpt) ==
    LET limit == IF limitOpt = 0 THEN DefaultLearningLimit ELSE limitOpt
        learning == filterLearningCommits(
                        getCommits(owner, repo, Min(limit * 2, GitHubMaxPerPage)))
    IN  SubSeq(learning, 1, Min(limit, Len(learning)))

(* ------------------------------ stores --------------------------------- *)
RepoId(owner, repo) == <<owner, repo>>

AnalysisKey(repo_id) == <<"analysis", repo_id>>
DiffKey(repo_id, sha) == <<"repos", repo_id, "diffs", sha>>

\* mutant: the lookup never matches
getRepositoryByUrlMiss(table, github_url) == {}

\* SELECT * FROM repositories WHERE github_url = ?
getRepositoryByUrl(table, github_url) ==
    {row \in BagToSet(table) : row.github_url = github_url}

\* mutant: the table accepts any row (no key, no uniqueness constraint)
RepositoryInsertUnchecked(table, row) == TRUE

\* repositories: id TEXT PRIMARY KEY, github_url TEXT NOT NULL UNIQUE
RepositoryInsertAllowed(table, row) ==
    \A old \in BagToSet(table) : old.id # row.id /\ old.github_url # row.github_url

\* commits: id TEXT PRIMARY KEY
CommitInsertAllowed(table, row) ==
    \A old \in BagToSet(table) : old.id # row.id

InsertRow(table, row) == table (+) SetToBag({row})

\* SELECT * FROM repositories WHERE id = ?
getRepository(table, id) == {row \in BagToSet(table) : row.id = id}

\* SELECT * FROM commits WHERE repo_id = ? ORDER BY date DESC LIMIT ?
\* (the rows of one repository have distinct dates)
getCommitsByRepo(table, repo_id, limit) ==
    LET rows == {row \in BagToSet(table) : row.repo_id = repo_id}
    IN  {row \in rows : Cardinality({later \in rows : later.date > row.date}) < limit}

Put(store, key, value) == (key :> value) @@ store

AnalysisStatus(repo_id, status, error_message) ==
    [repo_id |-> repo_id, status |-> status, error_message |-> error_message]

\* the value stored under analysis:{repo_id}, Null when the key is absent
getAnalysisStatus(repo_id) ==
    IF AnalysisKey(repo_id) \in DOMAIN kv THEN Some(kv[AnalysisKey(repo_id)]) ELSE Null

CommitDiff(githubCommit) ==
    [commit_sha |-> githubCommit.sha, files |-> githubCommit.files[1]]

(* ------------------------ ingestRepository ----------------------------- *)
EmptyResult ==
    [repository |-> Null, commits |-> <<>>, learningCommits |-> 0,
     totalCommits |-> 0, errors |-> <<>>]

IdleCall ==
    [pc |-> "idle", url |-> Null, limit |-> 0, repoId |-> Null,
     result |-> EmptyResult, githubCommits |-> <<>>, i |-> 0,
     error |-> "", faults |-> 0]

\* the call ends by throwing e: the collected result and the loop locals are dropped
Thrown(c, e) ==
    [IdleCall EXCEPT !.pc = "failed", !.url = c.url, !.repoId = c.repoId,
                     !.limit = c.limit, !.error = e,
                     !.result.repository = c.result.repository]

\* mutant: the outer catch rethrows without the status write
CatchOuterSkipsStatus(c, e) == Thrown(c, e)

\* the outer catch: the status write is attempted only when the repository
\* row was created by this call
CatchOuter(c, e) ==
    IF c.result.repository # Null
    THEN [c EXCEPT !.pc = "catch", !.error = e]
    ELSE Thrown(c, e)

\* the loop header: next candidate, or the final status write
LoopHead(c) ==
    [c EXCEPT !.pc = IF c.i < Len(c.githubCommits) THEN "commit" ELSE "complete"]

NextIteration(c) == LoopHead([c EXCEPT !.i = @ + 1])

\* mutant: a failed commit is not caught in the loop and reaches the outer catch
CatchCommitAborts(c, e) == CatchOuter(c, e)

\* the per-commit catch: record the error and go on with the next candidate
CatchCommit(c, e) ==
    NextIteration([c EXCEPT
        !.result.errors = Append(@, [sha |-> c.githubCommits[c.i + 1].sha, error |-> e])])

\* mutant: the stored row is put in front of the result
AfterCommitStoredInFront(c, row) ==
    LET pushed == [c EXCEPT !.result.commits = <<row>> \o @]
        githubCommit == c.githubCommits[c.i + 1]
        analysis == analyzeCommits(c.githubCommits)[c.i + 1]
    IN  IF analysis.isLearningWorthy /\ githubCommit.files # Null
        THEN [pushed EXCEPT !.pc = "diff"]
        ELSE NextIteration(pushed)

\* after the commit row is stored: push it, then decide about the diff
AfterCommitStored(c, row) ==
    LET pushed == [c EXCEPT !.result.commits = Append(@, row)]
        githubCommit == c.githubCommits[c.i + 1]
        analysis == analyzeCommits(c.githubCommits)[c.i + 1]
    IN  IF analysis.isLearningWorthy /\ githubCommit.files # Null
        THEN [pushed EXCEPT !.pc = "diff"]
        ELSE NextIteration(pushed)

AfterDiffStored(c) ==
    NextIteration([c EXCEPT !.result.learningCommits = @ + 1])

\* lines 48-66: build the result, parse the URL, issue the existing-by-URL read
Ingest(p, u) ==
    /\ calls[p].pc = "idle"
    /\ \A q \in Calls : q < p => calls[q].pc # "idle"
    /\ LET parsed == parseRepositoryUrl(u)
           c == [IdleCall EXCEPT !.url = Some(u)]
       IN  calls' = [calls EXCEPT ![p] =
              IF ~parsed.isValid
              THEN CatchOuter(c, parsed.error)
              ELSE [c EXCEPT !.pc = "check",
                             !.repoId = Some(RepoId(parsed.owner, parsed.repo))]]
    /\ UNCHANGED <<repositories, commits, kv, r2, vectors, sessionVars, taskVars, callVars>>

\* mutant: a repository whose ingest ended in `error` may be ingested again
CheckExistingRetriesFailed(p) ==
    /\ calls[p].pc = "check"
    /\ calls' = [calls EXCEPT ![p] =
          IF /\ getRepositoryByUrl(repositories, calls[p].url[1]) # {}
             /\ AnalysisKey(calls[p].repoId[1]) \in DOMAIN kv
             /\ kv[AnalysisKey(calls[p].repoId[1])].status # "error"
          THEN CatchOuter(@, "Repository already exists in database")
          ELSE [@ EXCEPT !.pc = "fetch"]]
    /\ UNCHANGED <<repositories, commits, kv, r2, vectors, sessionVars, taskVars, callVars>>

\* lines 66-72: the pre-check read returns
CheckExisting(p) ==
    /\ calls[p].pc = "check"
    /\ calls' = [calls EXCEPT ![p] =
          IF getRepositoryByUrl(repositories, calls[p].url[1]) # {}
          THEN CatchOuter(@, "Repository already exists in database")
          ELSE [@ EXCEPT !.pc = "fetch"]]
    /\ UNCHANGED <<repositories, commits, kv, r2, vectors, sessionVars, taskVars, callVars>>

\* mutant: a failed repository fetch records an `error` status
FetchRepositoryWritesStatus(p) ==
    /\ calls[p].pc = "fetch"
    /\ \E ok \in BOOLEAN :
          IF ok
          THEN /\ calls' = [calls EXCEPT ![p] = [@ EXCEPT !.pc = "create"]]
               /\ kv' = kv
          ELSE /\ calls' = [calls EXCEPT ![p] = CatchOuter(@, "GitHub API error")]
               /\ kv' = Put(kv, AnalysisKey(calls[p].repoId[1]),
                            AnalysisStatus(calls[p].repoId[1], "error", "GitHub API error"))
    /\ UNCHANGED <<repositories, commits, r2, vectors, sessionVars, taskVars, callVars>>

\* lines 72-76: client.getRepository returns or throws
FetchRepository(p) ==
    /\ calls[p].pc = "fetch"
    /\ \E ok \in BOOLEAN :
          calls' = [calls EXCEPT ![p] =
              IF ok THEN [@ EXCEPT !.pc = "create"]
              ELSE CatchOuter(@, "GitHub API error")]
    /\ UNCHANGED <<repositories, commits, kv, r2, vectors, sessionVars, taskVars, callVars>>

\* mutant: a call whose insert failed still takes the row as its own
CreateRepositoryClaimsRow(p) ==
    /\ calls[p].pc = "create"
    /\ LET c == calls[p]
           row == [id |-> c.repoId[1], github_url |-> c.url[1],
                   name |-> c.repoId[1]]
       IN  \E ok \in BOOLEAN :
              IF ok /\ RepositoryInsertAllowed(repositories, row)
              THEN /\ repositories' = InsertRow(repositories, row)
                   /\ calls' = [calls EXCEPT ![p] =
                         [c EXCEPT !.result.repository = Some(row), !.pc = "analyzing"]]
              ELSE /\ repositories' = repositories
                   /\ calls' = [calls EXCEPT ![p] =
                         CatchOuter([c EXCEPT !.result.repository = Some(row)],
                                    IF RepositoryInsertAllowed(repositories, row)
                                    THEN "D1 error"
                                    ELSE "D1 constraint failed")]
    /\ UNCHANGED <<commits, kv, r2, vectors, sessionVars, taskVars, callVars>>

\* lines 76-84: database.createRepository
CreateRepository(p) ==
    /\ calls[p].pc = "create"
    /\ LET c == calls[p]
           row == [id |-> c.repoId[1], github_url |-> c.url[1],
                   name |-> c.repoId[1]]
       IN  \E ok \in BOOLEAN :
              IF ok /\ RepositoryInsertAllowed(repositories, row)
              THEN /\ repositories' = InsertRow(repositories, row)
                   /\ calls' = [calls EXCEPT ![p] =
                         [c EXCEPT !.result.repository = Some(row), !.pc = "analyzing"]]
              ELSE /\ repositories' = repositories
                   /\ calls' = [calls EXCEPT ![p] =
                         CatchOuter(c, IF RepositoryInsertAllowed(repositories, row)
                                       THEN "D1 error"
                                       ELSE "D1 constraint failed")]
    /\ UNCHANGED <<commits, kv, r2, vectors, sessionVars, taskVars, callVars>>

\* lines 84-92: kv.setAnalysisStatus(analyzing)
SetAnalyzing(p) ==
    /\ calls[p].pc = "analyzing"
    /\ LET c == calls[p]
       IN  \E ok \in BOOLEAN :
              IF ok
              THEN /\ kv' = Put(kv, AnalysisKey(c.repoId[1]),
                                AnalysisStatus(c.repoId[1], "analyzing", ""))
                   /\ calls' = [calls EXCEPT ![p] = [c EXCEPT !.pc = "list"]]
              ELSE /\ kv' = kv
                   /\ calls' = [calls EXCEPT ![p] = CatchOuter(c, "KV error")]
    /\ UNCHANGED <<repositories, commits, r2, vectors, sessionVars, taskVars, callVars>>

\* lines 92-102: client.getLearningCommits, totalCommits, analyzeCommits.
\* options.commitLimit (0: not given) is first read here, so the argument is
\* drawn here.
ListCommits(p, lim) ==
    /\ calls[p].pc = "list"
    /\ LET c == calls[p]
           limit == IF lim = 0 THEN DefaultCommitLimit ELSE lim
           githubCommits == getLearningCommits(c.repoId[1][1], c.repoId[1][2], limit)
       IN  \E ok \in BOOLEAN :
              calls' = [calls EXCEPT ![p] =
                  IF ok
                  THEN LoopHead([c EXCEPT !.githubCommits = githubCommits,
                                          !.limit = lim,
                                          !.result.totalCommits = Len(githubCommits),
                                          !.i = 0])
                  ELSE CatchOuter(c, "GitHub API error")]
    /\ UNCHANGED <<repositories, commits, kv, r2, vectors, sessionVars, taskVars, callVars>>

\* mutant: a failed commit-row write is logged and the loop body goes on
StoreCommitGoesOn(p) ==
    /\ calls[p].pc = "commit"
    /\ LET c == calls[p]
           row == convertToDbCommit(c.githubCommits[c.i + 1], c.repoId[1])
       IN  \E ok \in BOOLEAN :
              IF ok /\ CommitInsertAllowed(commits, row)
              THEN /\ commits' = InsertRow(commits, row)
                   /\ calls' = [calls EXCEPT ![p] = AfterCommitStored(c, row)]
              ELSE /\ commits' = commits
                   /\ calls' = [calls EXCEPT ![p] =
                         AfterCommitStored([c EXCEPT !.faults = @ + 1], row)]
    /\ UNCHANGED <<repositories, kv, r2, vectors, sessionVars, taskVars, callVars>>

\* lines 103-113 and 127-129: database.createCommit for candidate i
StoreCommit(p) ==
    /\ calls[p].pc = "commit"
    /\ LET c == calls[p]
           row == convertToDbCommit(c.githubCommits[c.i + 1], c.repoId[1])
       IN  \E ok \in BOOLEAN :
              IF ok /\ CommitInsertAllowed(commits, row)
              THEN /\ commits' = InsertRow(commits, row)
                   /\ calls' = [calls EXCEPT ![p] = AfterCommitStored(c, row)]
              ELSE /\ commits' = commits
                   /\ calls' = [calls EXCEPT ![p] =
                         CatchCommit([c EXCEPT !.faults = @ + 1], "D1 error")]
    /\ UNCHANGED <<repositories, kv, r2, vectors, sessionVars, taskVars, callVars>>

\* lines 113-129: r2.storeCommitDiff for candidate i
StoreDiff(p) ==
    /\ calls[p].pc = "diff"
    /\ LET c == calls[p]
           githubCommit == c.githubCommits[c.i + 1]
       IN  \E ok \in BOOLEAN :
              IF ok
              THEN /\ r2' = Put(r2, DiffKey(c.repoId[1], githubCommit.sha),
                                CommitDiff(githubCommit))
                   /\ calls' = [calls EXCEPT ![p] = AfterDiffStored(c)]
              ELSE /\ r2' = r2
                   /\ calls' = [calls EXCEPT ![p] =
                         CatchCommit([c EXCEPT !.faults = @ + 1], "R2 error")]
    /\ UNCHANGED <<repositories, commits, kv, vectors, sessionVars, taskVars, callVars>>

\* lines 132-137 and 152: kv.setAnalysisStatus(completed), return result
SetCompleted(p) ==
    /\ calls[p].pc = "complete"
    /\ LET c == calls[p]
       IN  \E ok \in BOOLEAN :
              IF ok
              THEN /\ kv' = Put(kv, AnalysisKey(c.repoId[1]),
                                AnalysisStatus(c.repoId[1], "completed", ""))
                   /\ calls' = [calls EXCEPT ![p] = [c EXCEPT !.pc = "done"]]
              ELSE /\ kv' = kv
                   /\ calls' = [calls EXCEPT ![p] = CatchOuter(c, "KV error")]
    /\ UNCHANGED <<repositories, commits, r2, vectors, sessionVars, taskVars, callVars>>

\* lines 139-150: kv.setAnalysisStatus(error) in the outer catch, then rethrow;
\* when this write throws, its error leaves the call instead of the caught one
CatchStatus(p) ==
    /\ calls[p].pc = "catch"
    /\ LET c == calls[p]
           id == c.result.repository[1].id
       IN  \E ok \in BOOLEAN :
              IF ok
              THEN /\ kv' = Put(kv, AnalysisKey(id), AnalysisStatus(id, "error", c.error))
                   /\ calls' = [calls EXCEPT ![p] = Thrown(c, c.error)]
              ELSE /\ kv' = kv
                   /\ calls' = [calls EXCEPT ![p] = Thrown(c, "KV error (status write)")]
    /\ UNCHANGED <<repositories, commits, r2, vectors, sessionVars, taskVars, callVars>>

CommitLimits == {0, 1, 2}

IngestInit ==
    /\ repositories = EmptyBag
    /\ commits = EmptyBag
    /\ kv = <<>>
    /\ r2 = <<>>
    /\ vectors = {}
    /\ calls = [p \in Calls |-> IdleCall]
    /\ tutorials = EmptyBag
    /\ learner_sessions = <<>>
    /\ now = 0
    /\ ops = EmptyBag
    /\ walk = <<>>
    /\ refreshes = <<>>
    /\ gens = <<>>
    /\ clones = <<>>
    /\ args = <<>>
    /\ returned = <<>>

IngestNext ==
    \/ \E p \in Calls, u \in Urls : Ingest(p, u)
    \/ \E p \in Calls : CheckExisting(p)
    \/ \E p \in Calls : FetchRepository(p)
    \/ \E p \in Calls : CreateRepository(p)
    \/ \E p \in Calls : SetAnalyzing(p)
    \/ \E p \in Calls, lim \in CommitLimits : ListCommits(p, lim)
    \/ \E p \in Calls : StoreCommit(p)
    \/ \E p \in Calls : StoreDiff(p)
    \/ \E p \in Calls : SetCompleted(p)
    \/ \E p \in Calls : CatchStatus(p)

IngestSpec == IngestInit /\ [][IngestNext]_vars

(* ===================== properties of ingestRepository ================== *)
StatusOf(repo_id) ==
    IF getAnalysisStatus(repo_id) = Null THEN "absent"
    ELSE getAnalysisStatus(repo_id)[1].status

MessageOf(repo_id) ==
    IF getAnalysisStatus(repo_id) = Null THEN ""
    ELSE getAnalysisStatus(repo_id)[1].error_message

RowsWithUrl(u) == {row \in BagToSet(repositories) : row.github_url = u}
CountRowsWithUrl(u) ==
    LET rows == RowsWithUrl(u)
    IN  IF rows = {} THEN 0
        ELSE CopiesIn(CHOOSE row \in rows : TRUE, repositories) + Cardinality(rows) - 1

ErrorsFrom(c, cause) == Len(SelectSeq(c.result.errors, LAMBDA x : x.error = cause))

\* the step is taken by call p
StepOf(p) == calls'[p] # calls[p]

\* C1: an ingest that returns after exactly one forced storage write failure
\* in its loop over N candidates (the commit-row write or the diff-blob write
\* of one commit) returns commits of length N-1, errors of length 1 and
\* totalCommits = N.
C1_OneFailureDropsOneCommit ==
    \A p \in Calls :
        LET c == calls[p]
        IN  (c.pc = "done" /\ c.faults = 1) =>
               /\ Len(c.result.commits) = Len(c.githubCommits) - 1
               /\ Len(c.result.errors) = 1
               /\ c.result.totalCommits = Len(c.githubCommits)

\* C2: a storage failure while persisting a candidate commit never aborts the
\* loop: the outer catch is never entered by a commit-row or diff-blob
\* failure and never in the middle of the loop, every candidate has been
\* processed when the loop is left (each one stored or recorded in errors),
\* and a call that returned has left the status `completed`, whatever the
\* number of failed commits.
C2_CommitFailureNeverAborts ==
    \A p \in Calls :
        LET c == calls[p]
        IN  /\ c.pc = "catch" =>
                 /\ c.error \notin {"D1 error", "R2 error"}
                 /\ c.i = Len(c.githubCommits)
            /\ c.pc \in {"complete", "done"} =>
                 /\ c.i = Len(c.githubCommits)
                 /\ c.i = c.result.totalCommits
                 /\ Len(c.result.errors) = c.faults
                 /\ Len(c.result.commits) + ErrorsFrom(c, "D1 error") = c.i
            /\ c.pc = "done" => StatusOf(c.repoId[1]) = "completed"

C2_Witness ==
    \E p \in Calls :
        /\ calls[p].pc = "done"
        /\ Len(calls[p].result.errors) >= 2
        /\ ErrorsFrom(calls[p], "D1 error") >= 1
        /\ ErrorsFrom(calls[p], "R2 error") >= 1
        /\ StatusOf(calls[p].repoId[1]) = "completed"

\* C3 (as claimed): an ingest that failed after it wrote the repository row
\* has left the status `error` with a message when the error is rethrown.
C3_FailureLeavesErrorStatus ==
    \A p \in Calls :
        LET c == calls[p]
        IN  (c.pc = "failed" /\ c.result.repository # Null) =>
               /\ StatusOf(c.repoId[1]) = "error"
               /\ MessageOf(c.repoId[1]) # ""

\* C3 (amended): an ingest that failed after it wrote the repository row
\* attempted the `error` status write: when that write succeeded the status
\* is `error` with the caught error's message at the rethrow; when that
\* write failed too, the write's own error leaves the call and the status
\* stays what it was, absent or `analyzing`.
C3_ErrorStatusUnlessStatusWriteFails ==
    \A p \in Calls :
        LET c == calls[p]
        IN  (c.pc = "failed" /\ c.result.repository # Null) =>
               IF c.error # "KV error (status write)"
               THEN /\ StatusOf(c.repoId[1]) = "error"
                    /\ MessageOf(c.repoId[1]) = c.error
                    /\ c.error \in {"KV error", "GitHub API error"}
               ELSE StatusOf(c.repoId[1]) \in {"absent", "analyzing"}

C3_Witness ==
    /\ \E p \in Calls :
          /\ calls[p].pc = "failed"
          /\ calls[p].result.repository # Null
          /\ calls[p].error = "GitHub API error"
          /\ StatusOf(calls[p].repoId[1]) = "error"
    /\ \E q \in Calls :
          /\ calls[q].pc = "failed"
          /\ calls[q].result.repository # Null
          /\ calls[q].error = "KV error (status write)"

C5_InsertRaceHasOneWinner ==
    /\ [](\A p, q \in Calls :
             (/\ p # q
              /\ calls[p].result.repository # Null
              /\ calls[q].result.repository # Null)
             => calls[p].repoId # calls[q].repoId)
    /\ [](\A u \in Urls : CountRowsWithUrl(u) <= 1)
    /\ [][\A p \in Calls :
             (calls[p].pc = "create" /\ StepOf(p) /\ repositories' = repositories) =>
                /\ calls'[p].pc = "failed"
                /\ calls'[p].result.repository = Null
                /\ UNCHANGED <<commits, kv, r2, vectors>>]_vars

C5_Witness ==
    \E p, q \in Calls :
        /\ p # q
        /\ calls[p].url = calls[q].url
        /\ calls[p].result.repository # Null
        /\ calls[q].pc = "failed"
        /\ calls[q].error = "D1 constraint failed"
        /\ CountRowsWithUrl(calls[p].url[1]) = 1

\* C6: the steps of an ingest up to and including the repository info fetch
\* (URL parsing, the existing-by-URL check, the fetch) write to none of the
\* stores, and a failure there ends the call at once, without a status write.
C6_EarlyFailureWritesNothing ==
    [][\A p \in Calls :
          (calls[p].pc \in {"idle", "check", "fetch"} /\ StepOf(p)) =>
             /\ UNCHANGED <<repositories, commits, kv, r2, vectors>>
             /\ calls'[p].pc \in {"check", "fetch", "create", "failed"}
             /\ calls'[p].pc = "failed" =>
                   /\ calls'[p].result.repository = Null
                   /\ calls'[p].error \in {"Invalid GitHub URL format",
                                           "Repository already exists in database",
                                           "GitHub API error"}]_vars

C6_Witness ==
    /\ \E p \in Calls :
          /\ calls[p].pc = "failed"
          /\ calls[p].error = "GitHub API error"
          /\ calls[p].result.repository = Null
    /\ \E q \in Calls :
          /\ calls[q].pc = "failed"
          /\ calls[q].error = "Invalid GitHub URL format"
    /\ repositories = EmptyBag /\ commits = EmptyBag /\ kv = <<>> /\ r2 = <<>>

(* ======================== learner sessions ============================= *)
TutorialContentKey(tutorial_id) == <<"tutorials", tutorial_id, "content.json">>

TutorialContent(tutorial_id, k) ==
    [tutorial_id |-> tutorial_id, steps |-> [n \in 1..k |-> [id |-> n]]]

\* SELECT * FROM tutorials WHERE id = ?
getTutorial(id) == {row \in BagToSet(tutorials) : row.id = id}

\* the object stored under tutorials/{id}/content.json, Null when absent
getTutorialContent(tutorial_id) ==
    IF TutorialContentKey(tutorial_id) \in DOMAIN r2
    THEN Some(r2[TutorialContentKey(tutorial_id)]) ELSE Null

\* mutant: a tutorial row without its content blob reads as an empty tutorial
getTutorialWithContentRowOnly(tutorialId) ==
    IF getTutorial(tutorialId) = {} THEN Null
    ELSE Some([tutorial |-> CHOOSE row \in getTutorial(tutorialId) : TRUE,
               content |-> IF getTutorialContent(tutorialId) = Null
                           THEN TutorialContent(tutorialId, 0)
                           ELSE getTutorialContent(tutorialId)[1]])

\* Null stands for the throw ('Tutorial not found', 'Tutorial content not found')
getTutorialWithContent(tutorialId) ==
    IF getTutorial(tutorialId) = {} THEN Null
    ELSE IF getTutorialContent(tutorialId) = Null THEN Null
    ELSE Some([tutorial |-> CHOOSE row \in getTutorial(tutorialId) : TRUE,
               content |-> getTutorialContent(tutorialId)[1]])

\* SELECT * FROM learner_sessions WHERE id = ?
getSession(table, id) ==
    IF \E n \in DOMAIN table : table[n].id = id
    THEN Some(table[CHOOSE n \in DOMAIN table : table[n].id = id]) ELSE Null

\* INSERT INTO learner_sessions ... ; the id is a fresh generateId()
createSession(table, tutorial_id) ==
    Append(table, [id |-> Len(table) + 1, tutorial_id |-> tutorial_id,
                   current_step |-> 0, completed_at |-> Null])

\* mutant: the progress update also clears the completion timestamp
updateSessionProgressReopens(table, id, current_step) ==
    [n \in DOMAIN table |->
        IF table[n].id = id
        THEN [table[n] EXCEPT !.current_step = current_step, !.completed_at = Null]
        ELSE table[n]]

\* UPDATE learner_sessions SET current_step = ? WHERE id = ?
updateSessionProgress(table, id, current_step) ==
    [n \in DOMAIN table |->
        IF table[n].id = id THEN [table[n] EXCEPT !.current_step = current_step]
        ELSE table[n]]

\* mutant: the completion update has no WHERE clause
completeSessionAllRows(table, id, timestamp) ==
    [n \in DOMAIN table |-> [table[n] EXCEPT !.completed_at = Some(timestamp)]]

\* UPDATE learner_sessions SET completed_at = CURRENT_TIMESTAMP WHERE id = ?
completeSession(table, id, timestamp) ==
    [n \in DOMAIN table |->
        IF table[n].id = id THEN [table[n] EXCEPT !.completed_at = Some(timestamp)]
        ELSE table[n]]

StepCount(tutorial_id) == Len(getTutorialWithContent(tutorial_id)[1].content.steps)

\* mutant: the last step is recognised one step late
AtLastStepOffByOne(session, content) ==
    session.current_step > Len(content.steps) - 1

\* nextStep: "check if we can advance" fails
AtLastStep(session, content) ==
    session.current_step >= Len(content.steps) - 1

\* mutant: the first step is recognised one step late
AtFirstStepOffByOne(session) == session.current_step < 0

\* the locals of a call keep, of the row it fetched, the fields the code reads
\* and whether the row was completed
Snapshot(session) ==
    Some([tutorial_id |-> session[1].tutorial_id,
          current_step |-> session[1].current_step,
          completed |-> session[1].completed_at # Null])

Op(op, pc, sid, session) == [op |-> op, pc |-> pc, sid |-> sid, session |-> session]

SessionIds == 1..NumSessions
TutorialIds == 0..(MaxSteps + 1)

InFlight(sid) == {c \in BagToSet(ops) : c.sid = sid}

Replace(bag, old, new) == (bag (-) SetToBag({old})) (+) SetToBag({new})

\* the history of session sid is no longer a plain sequence of nextStep calls
Disturb(w, sid) == [n \in DOMAIN w |-> IF n = sid THEN -1 ELSE w[n]]

\* startSession: getTutorial (throws when the row or the content is missing),
\* then database.createSession; a failed write throws
StartSession(tutorialId) ==
    /\ Len(learner_sessions) < NumSessions
    /\ \E ok \in BOOLEAN :
          IF getTutorialWithContent(tutorialId) = Null \/ ~ok
          THEN UNCHANGED <<learner_sessions, walk>>
          ELSE /\ learner_sessions' = createSession(learner_sessions, tutorialId)
               /\ walk' = Append(walk, 0)
    /\ UNCHANGED <<tutorials, now, ops, ingestVars, r2, taskVars, callVars>>

\* nextStep, lines 107-110: database.getSession, throws when there is none
NextStepRead(sessionId) ==
    /\ BagCardinality(ops) < NumOps
    /\ LET session == getSession(learner_sessions, sessionId)
       IN  IF session = Null
           THEN UNCHANGED <<ops, walk>>
           ELSE /\ ops' = ops (+) SetToBag({Op("next", "write", sessionId, Snapshot(session))})
                /\ walk' = IF InFlight(sessionId) # {} THEN Disturb(walk, sessionId) ELSE walk
    /\ UNCHANGED <<tutorials, learner_sessions, now, ingestVars, r2, taskVars, callVars>>

\* nextStep, lines 112-123: getTutorial, then completeSession at the last step
\* and updateSessionProgress(current_step + 1) before it
NextStepWrite(c) ==
    /\ c \in BagToSet(ops)
    /\ c.op = "next" /\ c.pc = "write"
    /\ LET session == c.session[1]
           loaded == getTutorialWithContent(session.tutorial_id)
       IN  \E ok \in BOOLEAN :
              IF loaded = Null \/ ~ok
              THEN /\ ops' = ops (-) SetToBag({c})
                   /\ UNCHANGED learner_sessions
              ELSE /\ learner_sessions' =
                         IF AtLastStep(session, loaded[1].content)
                         THEN completeSession(learner_sessions, c.sid, now)
                         ELSE updateSessionProgress(learner_sessions, c.sid,
                                                    session.current_step + 1)
                   /\ ops' = Replace(ops, c, Op("next", "return", c.sid, Null))
    /\ UNCHANGED <<tutorials, now, walk, ingestVars, r2, taskVars, callVars>>

\* mutant: previousStep always writes
PreviousStepReadAlwaysWrites(sessionId) ==
    /\ BagCardinality(ops) < NumOps
    /\ LET session == getSession(learner_sessions, sessionId)
       IN  IF session = Null
           THEN UNCHANGED <<ops, walk>>
           ELSE /\ ops' = ops (+) SetToBag({Op("previous", "write", sessionId, Snapshot(session))})
                /\ walk' = Disturb(walk, sessionId)
    /\ UNCHANGED <<tutorials, learner_sessions, now, ingestVars, r2, taskVars, callVars>>

\* previousStep: "check if we can go back" fails
AtFirstStep(session) == session.current_step <= 0

\* previousStep, lines 132-140: database.getSession; at step 0 nothing is written
PreviousStepRead(sessionId) ==
    /\ BagCardinality(ops) < NumOps
    /\ LET session == getSession(learner_sessions, sessionId)
       IN  IF session = Null
           THEN UNCHANGED <<ops, walk>>
           ELSE /\ ops' = ops (+) SetToBag({
                      IF AtFirstStep(session[1])
                      THEN Op("previous", "return", sessionId, Null)
                      ELSE Op("previous", "write", sessionId, Snapshot(session))})
                /\ walk' = Disturb(walk, sessionId)
    /\ UNCHANGED <<tutorials, learner_sessions, now, ingestVars, r2, taskVars, callVars>>

\* previousStep, lines 143-144: updateSessionProgress(current_step - 1)
PreviousStepWrite(c) ==
    /\ c \in BagToSet(ops)
    /\ c.op = "previous" /\ c.pc = "write"
    /\ \E ok \in BOOLEAN :
          IF ok
          THEN /\ learner_sessions' = updateSessionProgress(learner_sessions, c.sid,
                                                            c.session[1].current_step - 1)
               /\ ops' = Replace(ops, c, Op("previous", "return", c.sid, Null))
          ELSE /\ ops' = ops (-) SetToBag({c})
               /\ UNCHANGED learner_sessions
    /\ UNCHANGED <<tutorials, now, walk, ingestVars, r2, taskVars, callVars>>

\* nextStep / previousStep: return await this.getSession(sessionId)
ReturnSession(c) ==
    /\ c \in BagToSet(ops)
    /\ c.pc = "return"
    /\ ops' = ops (-) SetToBag({c})
    /\ walk' = [n \in DOMAIN walk |->
                  IF n = c.sid /\ walk[n] >= 0 /\ c.op = "next"
                  THEN Min(walk[n] + 1, StepCount(learner_sessions[n].tutorial_id) + 1)
                  ELSE walk[n]]
    /\ UNCHANGED <<tutorials, learner_sessions, now, ingestVars, r2, taskVars, callVars>>

\* TutorialService.completeSession: database.completeSession, with no read;
\* a failed write throws and changes nothing
CompleteSession(sessionId) ==
    /\ \E ok \in BOOLEAN :
          IF ok
          THEN /\ learner_sessions' = completeSession(learner_sessions, sessionId, now)
               /\ walk' = Disturb(walk, sessionId)
          ELSE UNCHANGED <<learner_sessions, walk>>
    /\ UNCHANGED <<tutorials, now, ops, ingestVars, r2, taskVars, callVars>>

\* CURRENT_TIMESTAMP advances; a second that no stored timestamp can tell
\* from the next is not counted
Tick ==
    /\ now < MaxClock
    /\ \E n \in DOMAIN learner_sessions : learner_sessions[n].completed_at = Some(now)
    /\ now' = now + 1
    /\ UNCHANGED <<tutorials, learner_sessions, ops, walk, ingestVars, r2, taskVars, callVars>>

\* One ingested repository with one stored commit; tutorial k (1..MaxSteps)
\* of that commit has k steps; tutorial 0 is a row whose content write failed.
SessionRepository ==
    [id |-> RepoId("o", "r"), github_url |-> HttpsUrl("o", "r", FALSE),
     name |-> RepoId("o", "r")]

TutorialRow(k) == [id |-> k, commit_id |-> <<RepoId("o", "r"), CommitAt(1).sha>>]

SessionInit ==
    /\ repositories = SetToBag({SessionRepository})
    /\ commits = SetToBag({convertToDbCommit(CommitAt(1), RepoId("o", "r"))})
    /\ kv = (AnalysisKey(RepoId("o", "r")) :>
                AnalysisStatus(RepoId("o", "r"), "completed", ""))
    /\ r2 = [key \in {TutorialContentKey(k) : k \in 1..MaxSteps} |->
                TutorialContent(key[2], key[2])]
    /\ vectors = {}
    /\ calls = [p \in Calls |-> IdleCall]
    /\ tutorials = SetToBag({TutorialRow(k) : k \in 0..MaxSteps})
    /\ learner_sessions = <<>>
    /\ now = 0
    /\ ops = EmptyBag
    /\ walk = <<>>
    /\ refreshes = <<>>
    /\ gens = <<>>
    /\ clones = <<>>
    /\ args = <<>>
    /\ returned = <<>>

SessionNext ==
    \/ \E tutorialId \in TutorialIds : StartSession(tutorialId)
    \/ \E sessionId \in SessionIds : NextStepRead(sessionId)
    \/ \E c \in BagToSet(ops) : NextStepWrite(c)
    \/ \E sessionId \in SessionIds : PreviousStepRead(sessionId)
    \/ \E c \in BagToSet(ops) : PreviousStepWrite(c)
    \/ \E c \in BagToSet(ops) : ReturnSession(c)
    \/ \E sessionId \in SessionIds : CompleteSession(sessionId)
    \/ Tick

SessionSpec == SessionInit /\ [][SessionNext]_vars

(* ===================== properties of learner sessions ================== *)
Completed(row) == row.completed_at # Null

CallsOn(sid, pc) ==
    LET cs == {c \in InFlight(sid) : c.pc = pc}
    IN  IF cs = {} THEN 0
        ELSE IF Cardinality(cs) >= 2 THEN 2
        ELSE CopiesIn(CHOOSE c \in cs : TRUE, ops)

\* C7: the current_step of every session stays within [0, K-1], K >= 1 being
\* the number of steps of its tutorial, whatever nextStep, previousStep and
\* completeSession calls ran, interleaved or not.
C7_CurrentStepInRange ==
    \A n \in DOMAIN learner_sessions :
        LET row == learner_sessions[n]
        IN  /\ StepCount(row.tutorial_id) >= 1
            /\ 0 <= row.current_step
            /\ row.current_step <= StepCount(row.tutorial_id) - 1

C7_Witness ==
    \E n \in DOMAIN learner_sessions :
        /\ StepCount(learner_sessions[n].tutorial_id) >= 2
        /\ learner_sessions[n].current_step = StepCount(learner_sessions[n].tutorial_id) - 1
        /\ Completed(learner_sessions[n])
        /\ CallsOn(n, "return") >= 2

\* C8: on a tutorial with K steps, a session on which only nextStep was
\* called, one call after the other, n times since startSession has
\* current_step = n and is not completed while n <= K-1 (n = 0: right after
\* startSession), and is completed with current_step = K-1 once n >= K.
C8_NextWalksToCompletion ==
    \A n \in DOMAIN learner_sessions :
        LET row == learner_sessions[n]
            K == StepCount(row.tutorial_id)
        IN  (walk[n] >= 0 /\ InFlight(n) = {}) =>
               IF walk[n] <= K - 1
               THEN row.current_step = walk[n] /\ ~Completed(row)
               ELSE row.current_step = K - 1 /\ Completed(row)

C8_Witness ==
    \E n \in DOMAIN learner_sessions :
        /\ StepCount(learner_sessions[n].tutorial_id) = MaxSteps
        /\ walk[n] = MaxSteps
        /\ InFlight(n) = {}
        /\ learner_sessions[n].current_step = MaxSteps - 1
        /\ Completed(learner_sessions[n])

\* C9: once a session is completed, completeSession and a nextStep call that
\* found it completed leave its stored row (current_step and completion
\* timestamp) unchanged.
C9_CompletedSessionIsFrozen ==
    [][\A n \in DOMAIN learner_sessions :
          (/\ Completed(learner_sessions[n])
           /\ \/ CompleteSession(n)
              \/ \E c \in BagToSet(ops) :
                    c.sid = n /\ c.session # Null /\ c.session[1].completed /\ NextStepWrite(c))
          => learner_sessions'[n] = learner_sessions[n]]_vars

\* C10: completed_at changes from null to set only while current_step is the
\* last step of the tutorial.
C10_CompletedOnlyFromLastStep ==
    [][\A n \in DOMAIN learner_sessions :
          (~Completed(learner_sessions[n]) /\ Completed(learner_sessions'[n]))
          => learner_sessions[n].current_step =
                StepCount(learner_sessions[n].tutorial_id) - 1]_vars

\* C11: a completed session is never reopened: no step of nextStep,
\* previousStep or completeSession clears a completed_at that is set.
C11_CompletedNeverReopens ==
    [][\A n \in DOMAIN learner_sessions :
          Completed(learner_sessions[n]) => Completed(learner_sessions'[n])]_vars

C11_Witness ==
    \E n \in DOMAIN learner_sessions :
        /\ Completed(learner_sessions[n])
        /\ StepCount(learner_sessions[n].tutorial_id) >= 2
        /\ \E c \in InFlight(n) :
              c.op = "previous" /\ c.pc = "write" /\ c.session[1].completed
        /\ \E c \in InFlight(n) :
              c.op = "next" /\ c.pc = "write" /\ c.session[1].completed

\* C12: a previousStep call that reads a session at current_step 0 writes
\* nothing: the read leaves the table as it is, the call goes straight to
\* returning the stored state, and no previousStep write is ever pending for
\* a call that read step 0.
C12_PreviousAtFirstStepWritesNothing ==
    /\ [](\A c \in BagToSet(ops) :
             (c.op = "previous" /\ c.pc = "write") => c.session[1].current_step > 0)
    /\ [][\A n \in DOMAIN learner_sessions :
             \A c \in BagToSet(ops') :
                (/\ c.op = "previous" /\ c.sid = n
                 /\ CopiesIn(c, ops') > CopiesIn(c, ops)
                 /\ BagCardinality(ops') > BagCardinality(ops)
                 /\ learner_sessions[n].current_step = 0)
                => /\ c.pc = "return"
                   /\ learner_sessions' = learner_sessions]_vars

C12_Witness ==
    \E n \in DOMAIN learner_sessions :
        /\ StepCount(learner_sessions[n].tutorial_id) = 1
        /\ learner_sessions[n].current_step = 0
        /\ \E c \in InFlight(n) : c.op = "previous" /\ c.pc = "return"

(* ====================== tutorial generation ============================ *)
\* Repository o/b was ingested when `fresh` of its upstream commits did not
\* exist yet: its row and the rows of all older commits are stored.
SeededRepository ==
    [id |-> RepoId("o", "b"), github_url |-> HttpsUrl("o", "b", FALSE),
     name |-> RepoId("o", "b")]

SeededCommits(fresh) ==
    SetToBag({convertToDbCommit(BigCommitAt(k), RepoId("o", "b")) :
                 k \in (fresh + 1)..NumBig})

\* GET /repos/{owner}/{repo}/commits/{sha}: the commit with its parents;
\* the oldest commit of a repository is its root
getCommit(owner, repo, sha) ==
    LET listing == Upstream(owner, repo)
        n == CHOOSE n \in 1..Len(listing) : listing[n].sha = sha
    IN  [sha |-> sha, message |-> listing[n].message,
         files |-> listing[n].files,
         parents |-> IF n = Len(listing) THEN <<>>
                     ELSE << [sha |-> listing[n + 1].sha] >>]

\* mutant: a commit without parents is its own base
parentShaOfOrSelf(fullCommit) ==
    IF fullCommit.parents = <<>> THEN Some(fullCommit.sha) ELSE Some(fullCommit.parents[1].sha)

\* fullCommit.parents?.[0]?.sha
parentShaOf(fullCommit) ==
    IF fullCommit.parents = <<>> THEN Null ELSE Some(fullCommit.parents[1].sha)

\* GET /repos/{owner}/{repo}/git/trees/{ref}?recursive=1
\* A path is its text with what the code probes of it: the file name, the
\* extension and whether a skipped directory occurs in it.
TreeItem(path, type, name, ext, skipDir, size) ==
    [path |-> path, type |-> type, name |-> name, ext |-> ext,
     skipDir |-> skipDir, size |-> size, content |-> Null]

\* the newest commit (sha 1) added d/b.ts
getRepoTree(owner, repo, ref) ==
    IF ref = 1
    THEN << TreeItem("a.ts", "blob", "a.ts", "ts", FALSE, 100),
            TreeItem("d", "tree", "d", "", FALSE, 0),
            TreeItem("d/b.ts", "blob", "b.ts", "ts", FALSE, 300),
            TreeItem("logo.png", "blob", "logo.png", "png", FALSE, 5000) >>
    ELSE << TreeItem("a.ts", "blob", "a.ts", "ts", FALSE, 100),
            TreeItem("d", "tree", "d", "", FALSE, 0),
            TreeItem("logo.png", "blob", "logo.png", "png", FALSE, 5000) >>

\* the next index after i whose item the loop fetches, Len + 1 when none
NextBlob(tree, i) ==
    IF \E n \in (i + 1)..Len(tree) : tree[n].type = "blob"
    THEN CHOOSE n \in (i + 1)..Len(tree) :
            /\ tree[n].type = "blob"
            /\ \A k \in (i + 1)..(n - 1) : tree[k].type # "blob"
    ELSE Len(tree) + 1

(* ------------------------------ AIService ------------------------------ *)
\* A steps value is an array of steps or something else (a string, a number).
StepsArray(items) == [array |-> TRUE, items |-> items]
NotAnArray == [array |-> FALSE, items |-> <<>>]

AIStep(title) == [title |-> title]

\* the texts the model may answer: no braces; braces that do not parse;
\* a JSON object with or without title, description and steps
AIText(braces, json) == [throws |-> FALSE, braces |-> braces, json |-> json]
AIJson(title, description, steps) ==
    Some([title |-> title, description |-> description, steps |-> steps])

AIResponses ==
    { [throws |-> TRUE, braces |-> FALSE, json |-> Null],
      AIText(FALSE, Null),
      AIText(TRUE, Null),
      AIText(TRUE, AIJson(Some("T"), Some("D"), Some(StepsArray(<<AIStep("s1")>>)))),
      AIText(TRUE, AIJson(Null, Null, Null)),
      AIText(TRUE, AIJson(Null, Null, Some(StepsArray(<<>>)))),
      AIText(TRUE, AIJson(Some("T"), Some("D"), Some(NotAnArray))) }

generateFallbackTutorial(commit) ==
    [title |-> IF commit # Null THEN "Learn: message" ELSE "Learn from this commit",
     description |-> "Step-by-step implementation guide based on the commit changes.",
     steps |-> StepsArray(<< AIStep("Understand the Changes"),
                             AIStep("Plan Your Implementation"),
                             AIStep("Implement the Changes") >>)]

\* x || d
OrElse(x, d) == IF x = Null THEN d ELSE x[1]

parseTutorialResponse(response) ==
    IF response.braces /\ response.json # Null
    THEN [title |-> OrElse(response.json[1].title, "Learn from this commit"),
          description |-> OrElse(response.json[1].description,
                                 "Step-by-step implementation guide"),
          steps |-> OrElse(response.json[1].steps, StepsArray(<<>>))]
    ELSE generateFallbackTutorial(Null)

generateTutorialContent(commit, response) ==
    IF response.throws THEN generateFallbackTutorial(Some(commit))
    ELSE parseTutorialResponse(response)

(* ------------------------ generateTutorial ----------------------------- *)
Gens == 1..NumGens

IdleGen ==
    [pc |-> "idle", commitId |-> Null, targetCommit |-> Null, repository |-> Null,
     parentSha |-> Null, fileTree |-> <<>>, i |-> 0, tutorialContent |-> Null,
     tutorialId |-> Null, error |-> ""]

\* the call ends by throwing e: its locals are dropped
GenThrown(c, e) ==
    [IdleGen EXCEPT !.pc = "failed", !.commitId = c.commitId,
                    !.tutorialId = c.tutorialId, !.error = e]

\* the call returns { tutorial, content }
GenReturned(c) ==
    [IdleGen EXCEPT !.pc = "done", !.commitId = c.commitId,
                    !.tutorialId = c.tutorialId]

\* generate and clone calls write disjoint keys and read nothing the other
\* writes, so a behaviour follows the calls of one of the two
NoGenerate == \A p \in Gens : gens[p].pc = "idle"
NoClone == \A p \in DOMAIN clones : clones[p].pc = "idle"

\* generateId(): an id no stored tutorial has
FreshId(table) == BagCardinality(table) + 1

\* mutant: the insert replaces the earlier tutorials of the commit
createTutorialReplacing(table, row) ==
    InsertRow(SetToBag({old \in BagToSet(table) : old.commit_id # row.commit_id}), row)

\* INSERT INTO tutorials ... RETURNING *
createTutorial(table, row) == InsertRow(table, row)

\* tutorials: id TEXT PRIMARY KEY
TutorialInsertAllowed(table, row) ==
    \A old \in BagToSet(table) : old.id # row.id

\* the commit ids generate is asked for: a commit newer than the ingest, the
\* newest stored one, the root commit, a commit of a repository never ingested
GenCommitIds ==
    { <<RepoId("o", "b"), 1>>, <<RepoId("o", "b"), NumFresh + 1>>,
      <<RepoId("o", "b"), NumBig>>, <<RepoId("o", "x"), 1>> }

\* generateTutorial entered; calls touch disjoint rows and keys, so they are
\* taken one after the other
GenStart(p, commitId) ==
    /\ gens[p].pc = "idle"
    /\ \A q \in Gens : q < p => gens[q].pc \in {"done", "failed"}
    /\ NoClone
    /\ gens' = [gens EXCEPT ![p] = [IdleGen EXCEPT !.pc = "find", !.commitId = Some(commitId)]]
    /\ UNCHANGED <<ingestVars, r2, sessionVars, refreshes, clones, callVars>>

\* lines 551-556: getCommitsByRepo(commitId.split(':')[0]), find by id
GenFindCommit(p) ==
    /\ gens[p].pc = "find"
    /\ LET c == gens[p]
           commit == getCommitsByRepo(commits, c.commitId[1][1], CommitsByRepoLimit)
           found == {row \in commit : row.id = c.commitId[1]}
       IN  gens' = [gens EXCEPT ![p] =
              IF found = {} THEN GenThrown(c, "Commit not found")
              ELSE [c EXCEPT !.pc = "repository",
                             !.targetCommit = Some(CHOOSE row \in found : TRUE)]]
    /\ UNCHANGED <<ingestVars, r2, sessionVars, refreshes, clones, callVars>>

\* lines 559-568: getRepository, parseRepositoryUrl
GenGetRepository(p) ==
    /\ gens[p].pc = "repository"
    /\ LET c == gens[p]
           found == getRepository(repositories, c.targetCommit[1].repo_id)
           repository == CHOOSE row \in found : TRUE
       IN  gens' = [gens EXCEPT ![p] =
              IF found = {} THEN GenThrown(c, "Repository not found")
              ELSE IF ~parseRepositoryUrl(repository.github_url).isValid
              THEN GenThrown(c, "Invalid repository URL")
              ELSE [c EXCEPT !.pc = "details", !.repository = Some(repository)]]
    /\ UNCHANGED <<ingestVars, r2, sessionVars, refreshes, clones, callVars>>

\* lines 571-577: getCommitDetails, the parent check
GenGetCommitDetails(p) ==
    /\ gens[p].pc = "details"
    /\ LET c == gens[p]
           parsed == parseRepositoryUrl(c.repository[1].github_url)
           fullCommit == getCommit(parsed.owner, parsed.repo, c.targetCommit[1].sha)
       IN  \E ok \in BOOLEAN :
              gens' = [gens EXCEPT ![p] =
                 IF ~ok THEN GenThrown(c, "GitHub API error")
                 ELSE IF parentShaOf(fullCommit) = Null
                 THEN GenThrown(c, "Commit has no parent")
                 ELSE [c EXCEPT !.pc = "tree", !.parentSha = parentShaOf(fullCommit)]]
    /\ UNCHANGED <<ingestVars, r2, sessionVars, refreshes, clones, callVars>>

\* the loop over fileTree: on to the next blob, or out of the loop
GenLoopHead(c, i) ==
    LET n == NextBlob(c.fileTree, i)
    IN  [c EXCEPT !.i = n, !.pc = IF n <= Len(c.fileTree) THEN "files" ELSE "context"]

\* line 579: getRepoTree at the parent
GenGetRepoTree(p) ==
    /\ gens[p].pc = "tree"
    /\ LET c == gens[p]
           parsed == parseRepositoryUrl(c.repository[1].github_url)
       IN  \E ok \in BOOLEAN :
              gens' = [gens EXCEPT ![p] =
                 IF ~ok THEN GenThrown(c, "GitHub API error")
                 ELSE GenLoopHead([c EXCEPT !.fileTree =
                          getRepoTree(parsed.owner, parsed.repo, c.parentSha[1])], 0)]
    /\ UNCHANGED <<ingestVars, r2, sessionVars, refreshes, clones, callVars>>

\* mutant: a failed fetch leaves the item without content
FetchedOrNothing(ok) ==
    IF ok THEN Some("content") ELSE Null

\* lines 584-589: the content a file fetch leaves on the item
FetchedOrPlaceholder(ok) ==
    IF ok THEN Some("content") ELSE Some("// Could not load content for this file")

\* lines 582-591: getFileContent for the blob at i, caught per file
GenFetchFile(p) ==
    /\ gens[p].pc = "files"
    /\ LET c == gens[p]
       IN  \E ok \in BOOLEAN :
              gens' = [gens EXCEPT ![p] =
                 GenLoopHead([c EXCEPT !.fileTree[c.i].content = FetchedOrPlaceholder(ok)],
                             c.i)]
    /\ UNCHANGED <<ingestVars, r2, sessionVars, refreshes, clones, callVars>>

\* line 594: aiService.analyzeCodebase; it catches every failure of the model
\* and its result only feeds the prompt
GenAnalyzeCodebase(p) ==
    /\ gens[p].pc = "context"
    /\ gens' = [gens EXCEPT ![p] = [@ EXCEPT !.pc = "ai"]]
    /\ UNCHANGED <<ingestVars, r2, sessionVars, refreshes, clones, callVars>>

\* lines 597-602: aiService.generateTutorialContent
GenTutorialContent(p, response) ==
    /\ gens[p].pc = "ai"
    /\ gens' = [gens EXCEPT ![p] =
          [@ EXCEPT !.pc = "create",
                    !.tutorialContent =
                        Some(generateTutorialContent(gens[p].targetCommit[1], response))]]
    /\ UNCHANGED <<ingestVars, r2, sessionVars, refreshes, clones, callVars>>

\* lines 605-621: generateId, createTutorial, tutorialContent.steps.map
GenCreateTutorial(p) ==
    /\ gens[p].pc = "create"
    /\ LET c == gens[p]
           tutorialId == FreshId(tutorials)
           row == [id |-> tutorialId, commit_id |-> c.commitId[1],
                   title |-> c.tutorialContent[1].title,
                   description |-> c.tutorialContent[1].description]
       IN  \E ok \in BOOLEAN :
              IF ok /\ TutorialInsertAllowed(tutorials, row)
              THEN /\ tutorials' = createTutorial(tutorials, row)
                   /\ gens' = [gens EXCEPT ![p] =
                         IF c.tutorialContent[1].steps.array
                         THEN [c EXCEPT !.pc = "content", !.tutorialId = Some(tutorialId)]
                         ELSE GenThrown([c EXCEPT !.tutorialId = Some(tutorialId)],
                                        "TypeError: steps.map is not a function")]
              ELSE /\ tutorials' = tutorials
                   /\ gens' = [gens EXCEPT ![p] = GenThrown(c, "D1 error")]
    /\ UNCHANGED <<repositories, commits, kv, vectors, calls, r2,
                   learner_sessions, now, ops, walk, refreshes, clones, callVars>>

\* lines 624-629: the content object
GeneratedContent(c) ==
    [tutorial_id |-> c.tutorialId[1],
     steps |-> [n \in 1..Len(c.tutorialContent[1].steps.items) |->
                  [id |-> n, title |-> c.tutorialContent[1].steps.items[n].title]],
     fileTree |-> c.fileTree, parentSha |-> c.parentSha[1]]

\* mutant: a failed content write deletes the tutorial row again
GenStoreContentRollsBack(p) ==
    /\ gens[p].pc = "content"
    /\ LET c == gens[p]
       IN  \E ok \in BOOLEAN :
              IF ok
              THEN /\ r2' = Put(r2, TutorialContentKey(c.tutorialId[1]), GeneratedContent(c))
                   /\ tutorials' = tutorials
                   /\ gens' = [gens EXCEPT ![p] = GenReturned(c)]
              ELSE /\ r2' = r2
                   /\ tutorials' = tutorials (-)
                         SetToBag({row \in BagToSet(tutorials) : row.id = c.tutorialId[1]})
                   /\ gens' = [gens EXCEPT ![p] = GenThrown(c, "R2 error")]
    /\ UNCHANGED <<ingestVars, learner_sessions, now, ops, walk, refreshes, clones, callVars>>

\* lines 631-636: r2.storeTutorialContent, return
GenStoreContent(p) ==
    /\ gens[p].pc = "content"
    /\ LET c == gens[p]
       IN  \E ok \in BOOLEAN :
              IF ok
              THEN /\ r2' = Put(r2, TutorialContentKey(c.tutorialId[1]), GeneratedContent(c))
                   /\ gens' = [gens EXCEPT ![p] = GenReturned(c)]
              ELSE /\ r2' = r2
                   /\ gens' = [gens EXCEPT ![p] = GenThrown(c, "R2 error")]
    /\ UNCHANGED <<ingestVars, sessionVars, refreshes, clones, callVars>>

(* -------------------------- cloneRepository ---------------------------- *)
Clones == 1..NumClones

MaxCloneFileSize == 200000

SkipDirs ==
    {"node_modules/", ".git/", "dist/", "build/", "coverage/", ".next/", ".nuxt/",
     "vendor/", "target/", "bin/", "obj/", "__pycache__/", ".pytest_cache/",
     ".vscode/", ".idea/"}

BinaryExts ==
    {"png", "jpg", "jpeg", "gif", "bmp", "ico", "svg", "woff", "woff2", "ttf",
     "eot", "otf", "zip", "tar", "gz", "rar", "7z", "exe", "dll", "so", "dylib",
     "pdf", "doc", "docx", "xls", "xlsx", "mp3", "mp4", "avi", "mov", "wmv",
     "class", "jar", "war", "ear"}

SourceExts ==
    {"js", "ts", "jsx", "tsx", "mjs", "py", "java", "go", "rs", "cpp", "c", "h",
     "cs", "php", "rb", "swift", "kt", "html", "css", "scss", "sass", "less",
     "json", "xml", "yaml", "yml", "toml", "md", "txt", "rst", "sql", "sh",
     "bat", "ps1", "dockerfile", "makefile"}

ConfigFileNames ==
    {"Dockerfile", "Makefile", "LICENSE", "CHANGELOG", "CONTRIBUTING",
     ".gitignore", ".editorconfig", ".npmrc", ".nvmrc", "Cargo.toml", "go.mod",
     "requirements.txt", "setup.py", "pom.xml", "build.gradle", "CMakeLists.txt"}

\* mutant: the two denylists alone decide
shouldIncludeFileDenyOnly(item) ==
    IF item.skipDir THEN FALSE
    ELSE IF item.ext \in BinaryExts THEN FALSE
    ELSE TRUE

shouldIncludeFile(item) ==
    IF item.skipDir THEN FALSE
    ELSE IF item.ext \in BinaryExts THEN FALSE
    ELSE IF item.ext \in SourceExts THEN TRUE
    ELSE item.name \in ConfigFileNames

\* lines 42-46: the files the workspace shows
relevantFiles(repoTree) ==
    SelectSeq(repoTree, LAMBDA item :
        item.type = "blob" /\ shouldIncludeFile(item) /\ item.size < MaxCloneFileSize)

CloneKey(tutorialId) == <<"clones", tutorialId, "clone.json">>

IdleClone ==
    [pc |-> "idle", tutorialId |-> Null, files |-> <<>>, i |-> 0, error |-> ""]

CloneThrown(c, e) ==
    [IdleClone EXCEPT !.pc = "failed", !.tutorialId = c.tutorialId, !.error = e]

\* lines 122-128: the content of a file node
CloneFetchedOrPlaceholder(ok) ==
    IF ok THEN Some("content")
    ELSE Some("// Could not load content for this file, Path, Error")

\* cloneRepository entered for the parent commit of a tutorial
CloneStart(p, tutorialId) ==
    /\ clones[p].pc = "idle"
    /\ \A q \in Clones : q < p => clones[q].pc \in {"done", "failed"}
    /\ NoGenerate
    /\ clones' = [clones EXCEPT ![p] =
          [IdleClone EXCEPT !.pc = "tree", !.tutorialId = Some(tutorialId)]]
    /\ UNCHANGED <<ingestVars, r2, sessionVars, refreshes, gens, callVars>>

\* lines 37-46: getRepoTree, the filter; buildFileTree starts
CloneGetRepoTree(p) ==
    /\ clones[p].pc = "tree"
    /\ LET c == clones[p]
           files == relevantFiles(getRepoTree("o", "b", 1))
       IN  \E ok \in BOOLEAN :
              clones' = [clones EXCEPT ![p] =
                 IF ~ok THEN CloneThrown(c, "GitHub API error")
                 ELSE [c EXCEPT !.files = files, !.i = 1,
                                !.pc = IF files = <<>> THEN "store" ELSE "files"]]
    /\ UNCHANGED <<ingestVars, r2, sessionVars, refreshes, gens, callVars>>

\* buildFileTree lines 117-144: getFileContent for file i, caught per file
CloneFetchFile(p) ==
    /\ clones[p].pc = "files"
    /\ LET c == clones[p]
       IN  \E ok \in BOOLEAN :
              clones' = [clones EXCEPT ![p] =
                 [c EXCEPT !.files[c.i].content = CloneFetchedOrPlaceholder(ok),
                           !.i = c.i + 1,
                           !.pc = IF c.i < Len(c.files) THEN "files" ELSE "store"]]
    /\ UNCHANGED <<ingestVars, r2, sessionVars, refreshes, gens, callVars>>

\* lines 53-68: the snapshot is put under clones/{tutorialId}-clone.json
CloneStore(p) ==
    /\ clones[p].pc = "store"
    /\ LET c == clones[p]
           snapshot == [id |-> c.tutorialId[1], files |-> c.files,
                        totalFiles |-> Len(c.files)]
       IN  \E ok \in BOOLEAN :
              IF ok
              THEN /\ r2' = Put(r2, CloneKey(c.tutorialId[1]), snapshot)
                   /\ clones' = [clones EXCEPT ![p] =
                         [IdleClone EXCEPT !.pc = "done", !.tutorialId = c.tutorialId]]
              ELSE /\ r2' = r2
                   /\ clones' = [clones EXCEPT ![p] = CloneThrown(c, "R2 error")]
    /\ UNCHANGED <<ingestVars, sessionVars, refreshes, gens, callVars>>

\* the tutorials a workspace is asked for
CloneTutorialIds == {1}

GenerateInit ==
    /\ repositories = SetToBag({SeededRepository})
    /\ \E fresh \in 0..NumFresh : commits = SeededCommits(fresh)
    /\ kv = (AnalysisKey(RepoId("o", "b")) :>
                AnalysisStatus(RepoId("o", "b"), "completed", ""))
    /\ r2 = <<>>
    /\ vectors = {}
    /\ calls = [p \in Calls |-> IdleCall]
    /\ tutorials = EmptyBag
    /\ learner_sessions = <<>>
    /\ now = 0
    /\ ops = EmptyBag
    /\ walk = <<>>
    /\ refreshes = <<>>
    /\ gens = [p \in Gens |-> IdleGen]
    /\ clones = [p \in Clones |-> IdleClone]
    /\ args = <<>>
    /\ returned = <<>>

GenerateNext ==
    \/ \E p \in Gens, commitId \in GenCommitIds : GenStart(p, commitId)
    \/ \E p \in Gens : GenFindCommit(p)
    \/ \E p \in Gens : GenGetRepository(p)
    \/ \E p \in Gens : GenGetCommitDetails(p)
    \/ \E p \in Gens : GenGetRepoTree(p)
    \/ \E p \in Gens : GenFetchFile(p)
    \/ \E p \in Gens : GenAnalyzeCodebase(p)
    \/ \E p \in Gens, response \in AIResponses : GenTutorialContent(p, response)
    \/ \E p \in Gens : GenCreateTutorial(p)
    \/ \E p \in Gens : GenStoreContent(p)
    \/ \E p \in Clones, tutorialId \in CloneTutorialIds : CloneStart(p, tutorialId)
    \/ \E p \in Clones : CloneGetRepoTree(p)
    \/ \E p \in Clones : CloneFetchFile(p)
    \/ \E p \in Clones : CloneStore(p)

GenerateSpec == GenerateInit /\ [][GenerateNext]_vars

(* -------------------- properties of generation ------------------------ *)
\* the commit the id names has no parent in the source-control record
ZeroParents(commitId) ==
    /\ commitId[1] = RepoId("o", "b")
    /\ getCommit("o", "b", commitId[2]).parents = <<>>

\* the commit ids generate is asked for that name a commit without parents
ZeroParentIds == {commitId \in GenCommitIds : ZeroParents(commitId)}

\* the tutorial rows of a commit
TutorialsOf(commitId) == {row \in BagToSet(tutorials) : row.commit_id = commitId}

HasContent(tutorial_id) == TutorialContentKey(tutorial_id) \in DOMAIN r2

\* the content blobs generate has stored
StoredContents == {r2[key] : key \in {k \in DOMAIN r2 : k[1] = "tutorials"}}

\* C13: generate for a commit whose fetched record has zero parents fails with
\* the no-parent error as soon as the record is fetched, never goes on to read
\* a tree at any base, and leaves neither a tutorial row nor a content blob.
C13_NoParentAlwaysFails ==
    /\ [](/\ \A p \in Gens :
              gens[p].commitId # Null /\ gens[p].commitId[1] \in ZeroParentIds =>
                  /\ gens[p].pc \in {"find", "repository", "details", "failed"}
                  /\ gens[p].parentSha = Null
                  /\ gens[p].error \in {"", "Commit not found", "GitHub API error",
                                        "Commit has no parent"}
          /\ \A row \in BagToSet(tutorials) : row.commit_id \notin ZeroParentIds
          /\ \A content \in StoredContents :
              \E row \in BagToSet(tutorials) :
                  row.id = content.tutorial_id /\ row.commit_id \notin ZeroParentIds)
    /\ [][\A p \in Gens :
            /\ gens[p].pc = "details"
            /\ gens[p].commitId[1] \in ZeroParentIds
            /\ gens'[p] # gens[p]
            => /\ gens'[p].pc = "failed"
               /\ gens'[p].error \in {"Commit has no parent", "GitHub API error"}
               /\ UNCHANGED <<tutorials, r2>>]_vars

C13_Witness ==
    \E p \in Gens :
        /\ gens[p].pc = "failed"
        /\ gens[p].error = "Commit has no parent"
        /\ ZeroParents(gens[p].commitId[1])

\* C14: whatever the model answers (it throws, answers text without JSON,
\* malformed JSON, or JSON without a usable step list), generate does not fail
\* because of the answer, and every tutorial it stores has a title, a
\* description and at least one step.
C14_AIOutcomeNeverBreaksGenerate ==
    /\ \A p \in Gens : gens[p].error # "TypeError: steps.map is not a function"
    /\ \A row \in BagToSet(tutorials) : row.title # "" /\ row.description # ""
    /\ \A content \in StoredContents : Len(content.steps) >= 1

\* C15: generate writes the tutorial row before the content blob; when the
\* blob write fails the call throws, the row is not rolled back, and the row
\* stays without content.
C15_RowBeforeBlobNoRollback ==
    /\ [](/\ \A content \in StoredContents :
              \E row \in BagToSet(tutorials) : row.id = content.tutorial_id
          /\ \A p \in Gens :
               /\ gens[p].pc = "content" =>
                      /\ \E row \in BagToSet(tutorials) : row.id = gens[p].tutorialId[1]
                      /\ ~HasContent(gens[p].tutorialId[1])
               /\ gens[p].error = "R2 error" =>
                      /\ gens[p].pc = "failed"
                      /\ \E row \in BagToSet(tutorials) :
                            /\ row.id = gens[p].tutorialId[1]
                            /\ row.commit_id = gens[p].commitId[1]
                      /\ ~HasContent(gens[p].tutorialId[1]))
    /\ [][\A p \in Gens :
            gens[p].pc = "content" /\ gens'[p].pc = "failed"
            => /\ gens'[p].error = "R2 error"
               /\ UNCHANGED <<tutorials, r2>>]_vars

C15_Witness ==
    \E p \in Gens :
        /\ gens[p].pc = "failed"
        /\ gens[p].error = "R2 error"
        /\ \E row \in BagToSet(tutorials) : row.id = gens[p].tutorialId[1]
        /\ ~HasContent(gens[p].tutorialId[1])

\* the calls that returned a tutorial of the commit
DoneFor(commitId) ==
    {p \in Gens : gens[p].pc = "done" /\ gens[p].commitId = Some(commitId)}

\* C16: every successful generate call of a commit creates a new tutorial row
\* with an id of its own and its own content blob, and no call overwrites or
\* removes an earlier tutorial: n successful calls leave n tutorials of the
\* commit, each with content.
C16_RegenerationAddsATutorial ==
    /\ [](\A commitId \in GenCommitIds :
            /\ \A p, q \in DoneFor(commitId) :
                   p # q => gens[p].tutorialId # gens[q].tutorialId
            /\ \A p \in DoneFor(commitId) :
                   /\ HasContent(gens[p].tutorialId[1])
                   /\ r2[TutorialContentKey(gens[p].tutorialId[1])].tutorial_id
                         = gens[p].tutorialId[1]
                   /\ \E row \in TutorialsOf(commitId) :
                         /\ row.id = gens[p].tutorialId[1]
                         /\ CopiesIn(row, tutorials) = 1
            /\ Cardinality({row \in TutorialsOf(commitId) : HasContent(row.id)})
                   = Cardinality(DoneFor(commitId)))
    /\ [][/\ \A row \in BagToSet(tutorials) :
              CopiesIn(row, tutorials') = CopiesIn(row, tutorials)
          /\ \A key \in DOMAIN r2 :
              key[1] = "tutorials" => key \in DOMAIN r2' /\ r2'[key] = r2[key]]_vars

C16_Witness ==
    \E commitId \in GenCommitIds :
        /\ Cardinality(DoneFor(commitId)) = 2
        /\ Cardinality({row \in TutorialsOf(commitId) : HasContent(row.id)}) = 2

\* every blob of the tree carries content: what was fetched or the placeholder
BlobsCarryContent(fileTree) ==
    \A n \in 1..Len(fileTree) :
        fileTree[n].type = "blob" =>
            fileTree[n].content # Null /\ fileTree[n].content[1] # ""

FilesCarryContent(files) ==
    \A n \in 1..Len(files) :
        files[n].content # Null /\ files[n].content[1] # ""

\* C17: in generate and in workspace materialization a failed file fetch is
\* replaced by a placeholder for that file and never ends the call: whichever
\* fetches fail, the call goes on past its file loop and every blob it holds
\* or stores carries content.
C17_FileFetchFailureIsAbsorbed ==
    /\ [](/\ \A p \in Gens :
              gens[p].pc \in {"context", "ai", "create", "content"} =>
                  BlobsCarryContent(gens[p].fileTree)
          /\ \A content \in StoredContents : BlobsCarryContent(content.fileTree)
          /\ \A p \in Clones :
              clones[p].pc = "store" => FilesCarryContent(clones[p].files)
          /\ \A key \in DOMAIN r2 :
              key[1] = "clones" => FilesCarryContent(r2[key].files))
    /\ [][/\ \A p \in Gens :
              gens[p].pc = "files" => gens'[p].pc \in {"files", "context"}
          /\ \A p \in Clones :
              clones[p].pc = "files" => clones'[p].pc \in {"files", "store"}]_vars

\* a generate call returned although every file fetch failed
C17_Witness ==
    \E p \in Gens :
        /\ gens[p].pc = "done"
        /\ LET fileTree == r2[TutorialContentKey(gens[p].tutorialId[1])].fileTree
           IN  /\ \E n \in 1..Len(fileTree) : fileTree[n].type = "blob"
               /\ \A n \in 1..Len(fileTree) :
                      fileTree[n].type = "blob" =>
                          fileTree[n].content = FetchedOrPlaceholder(FALSE)

\* the commit rows with the composite id, under the repository its prefix names
StoredCommit(commitId) ==
    {row \in BagToSet(commits) : row.id = commitId /\ row.repo_id = commitId[1]}

\* C18: generate(commitId) fails with commit-not-found exactly when no commit
\* row with that composite id is stored under the repository the prefix names;
\* a stored commit is resolved however many commits the repository has.
C18_NotFoundIffNotStored ==
    \A p \in Gens :
        gens[p].pc \notin {"idle", "find"} =>
            (gens[p].error = "Commit not found" <=> StoredCommit(gens[p].commitId[1]) = {})

(* ======================= refreshRepository ============================= *)
Refreshes == 1..NumRefreshes

IdleRefresh ==
    [pc |-> "idle", repoId |-> Null, limit |-> 0, existingShas |-> {},
     newCommits |-> <<>>, i |-> 0, errors |-> <<>>, result |-> Null, error |-> ""]

\* the call ends by throwing e: its locals are dropped
RefreshThrown(c, e) ==
    [IdleRefresh EXCEPT !.pc = "failed", !.repoId = c.repoId, !.limit = c.limit,
                        !.error = e]

\* lines 217-220: return { newCommits: newCommits.length, errors }
RefreshReturned(c) ==
    [IdleRefresh EXCEPT !.pc = "done", !.repoId = c.repoId, !.limit = c.limit,
                        !.result = Some([newCommits |-> Len(c.newCommits),
                                         errors |-> c.errors])]

\* the loop header: the next new commit, or the return
RefreshLoopHead(c) ==
    IF c.i < Len(c.newCommits) THEN [c EXCEPT !.pc = "commit"] ELSE RefreshReturned(c)

RefreshNextIteration(c) == RefreshLoopHead([c EXCEPT !.i = @ + 1])

\* lines 213-215: the per-commit catch
RefreshCatchCommit(c, e) ==
    RefreshNextIteration([c EXCEPT
        !.errors = Append(@, [sha |-> c.newCommits[c.i + 1].sha, error |-> e])])

\* mutant: the diff is written for every commit that carries file data
RefreshAfterCommitStoredAnyFiles(c) ==
    IF c.newCommits[c.i + 1].files # Null
    THEN [c EXCEPT !.pc = "diff"]
    ELSE RefreshNextIteration(c)

\* lines 200-201: analyzeCommit, then the decision about the diff
RefreshAfterCommitStored(c) ==
    LET githubCommit == c.newCommits[c.i + 1]
        analysis == analyzeCommit(githubCommit)
    IN  IF analysis.isLearningWorthy /\ githubCommit.files # Null
        THEN [c EXCEPT !.pc = "diff"]
        ELSE RefreshNextIteration(c)

\* calls are taken one after the other, ingest calls included
IngestQuiescent == \A p \in Calls : calls[p].pc \in {"idle", "done", "failed"}
RefreshQuiescent ==
    \A p \in DOMAIN refreshes : refreshes[p].pc \in {"idle", "done", "failed"}

\* the repositories refresh is asked for
RefreshRepoIds == {RepoId("o", "b"), RepoId("o", "r")}

\* options.commitLimit: not given (0), one, the whole history of o/b
RefreshLimits == {0, 1, NumBig}

\* lines 164-172: refreshRepository entered
RefreshStart(p, repoId) ==
    /\ refreshes[p].pc = "idle"
    /\ \A q \in Refreshes : q < p => refreshes[q].pc \in {"done", "failed"}
    /\ IngestQuiescent
    /\ refreshes' = [refreshes EXCEPT ![p] =
          [IdleRefresh EXCEPT !.pc = "repository", !.repoId = Some(repoId)]]
    /\ UNCHANGED <<ingestVars, r2, sessionVars, gens, clones, callVars>>

\* lines 172-182: getRepository, parseRepositoryUrl
RefreshGetRepository(p) ==
    /\ refreshes[p].pc = "repository"
    /\ LET c == refreshes[p]
           found == getRepository(repositories, c.repoId[1])
           repository == CHOOSE row \in found : TRUE
       IN  refreshes' = [refreshes EXCEPT ![p] =
              IF found = {} THEN RefreshThrown(c, "Repository not found")
              ELSE IF ~parseRepositoryUrl(repository.github_url).isValid
              THEN RefreshThrown(c, "Invalid repository URL in database")
              ELSE [c EXCEPT !.pc = "existing"]]
    /\ UNCHANGED <<ingestVars, r2, sessionVars, gens, clones, callVars>>

\* lines 184-185: getCommitsByRepo(repoId), existingShas
RefreshReadExisting(p) ==
    /\ refreshes[p].pc = "existing"
    /\ LET c == refreshes[p]
           existingCommits == getCommitsByRepo(commits, c.repoId[1], CommitsByRepoLimit)
       IN  refreshes' = [refreshes EXCEPT ![p] =
              [c EXCEPT !.pc = "list",
                        !.existingShas = {row.sha : row \in existingCommits}]]
    /\ UNCHANGED <<ingestVars, r2, sessionVars, gens, clones, callVars>>

\* lines 187-193: getLearningCommits, the filter on existingShas.
\* options.commitLimit (0: not given) is first read here.
RefreshListCommits(p, lim) ==
    /\ refreshes[p].pc = "list"
    /\ LET c == refreshes[p]
           limit == IF lim = 0 THEN DefaultRefreshLimit ELSE lim
           githubCommits == getLearningCommits(c.repoId[1][1], c.repoId[1][2], limit)
           IsNew(commit) == commit.sha \notin c.existingShas
       IN  \E ok \in BOOLEAN :
              refreshes' = [refreshes EXCEPT ![p] =
                 IF ok
                 THEN RefreshLoopHead([c EXCEPT !.limit = lim, !.i = 0,
                                               !.existingShas = {},
                                               !.newCommits = SelectSeq(githubCommits, IsNew)])
                 ELSE RefreshThrown(c, "GitHub API error")]
    /\ UNCHANGED <<ingestVars, r2, sessionVars, gens, clones, callVars>>

\* lines 195-201 and 213-215: database.createCommit for new commit i
RefreshStoreCommit(p) ==
    /\ refreshes[p].pc = "commit"
    /\ LET c == refreshes[p]
           row == convertToDbCommit(c.newCommits[c.i + 1], c.repoId[1])
       IN  \E ok \in BOOLEAN :
              IF ok /\ CommitInsertAllowed(commits, row)
              THEN /\ commits' = InsertRow(commits, row)
                   /\ refreshes' = [refreshes EXCEPT ![p] = RefreshAfterCommitStored(c)]
              ELSE /\ commits' = commits
                   /\ refreshes' = [refreshes EXCEPT ![p] =
                         RefreshCatchCommit(c, IF CommitInsertAllowed(commits, row)
                                               THEN "D1 error"
                                               ELSE "D1 constraint failed")]
    /\ UNCHANGED <<repositories, kv, vectors, calls, r2, sessionVars, gens, clones, callVars>>

\* lines 201-215: r2.storeCommitDiff for new commit i
RefreshStoreDiff(p) ==
    /\ refreshes[p].pc = "diff"
    /\ LET c == refreshes[p]
           githubCommit == c.newCommits[c.i + 1]
       IN  \E ok \in BOOLEAN :
              IF ok
              THEN /\ r2' = Put(r2, DiffKey(c.repoId[1], githubCommit.sha),
                                CommitDiff(githubCommit))
                   /\ refreshes' = [refreshes EXCEPT ![p] = RefreshNextIteration(c)]
              ELSE /\ r2' = r2
                   /\ refreshes' = [refreshes EXCEPT ![p] = RefreshCatchCommit(c, "R2 error")]
    /\ UNCHANGED <<ingestVars, sessionVars, gens, clones, callVars>>

\* the ingest calls that run beside the refresh calls
RefreshIngestCalls == {1}
RefreshIngestUrls == {HttpsUrl("o", "r", FALSE)}
RefreshIngestLimits == {1, 2}

\* an ingest call enters between the refresh calls
RefreshIngest(p, u) ==
    /\ RefreshQuiescent
    /\ Ingest(p, u)

RefreshInit ==
    /\ repositories = SetToBag({SeededRepository})
    /\ \E fresh \in 0..NumFresh : commits = SeededCommits(fresh)
    /\ kv = (AnalysisKey(RepoId("o", "b")) :>
                AnalysisStatus(RepoId("o", "b"), "completed", ""))
    /\ r2 = <<>>
    /\ vectors = {}
    /\ calls = [p \in Calls |-> IdleCall]
    /\ tutorials = EmptyBag
    /\ learner_sessions = <<>>
    /\ now = 0
    /\ ops = EmptyBag
    /\ walk = <<>>
    /\ refreshes = [p \in Refreshes |-> IdleRefresh]
    /\ gens = <<>>
    /\ clones = <<>>
    /\ args = <<>>
    /\ returned = <<>>

RefreshNext ==
    \/ \E p \in Refreshes, repoId \in RefreshRepoIds : RefreshStart(p, repoId)
    \/ \E p \in Refreshes : RefreshGetRepository(p)
    \/ \E p \in Refreshes : RefreshReadExisting(p)
    \/ \E p \in Refreshes, lim \in RefreshLimits : RefreshListCommits(p, lim)
    \/ \E p \in Refreshes : RefreshStoreCommit(p)
    \/ \E p \in Refreshes : RefreshStoreDiff(p)
    \/ \E p \in RefreshIngestCalls, u \in RefreshIngestUrls : RefreshIngest(p, u)
    \/ \E p \in RefreshIngestCalls : CheckExisting(p)
    \/ \E p \in RefreshIngestCalls : FetchRepository(p)
    \/ \E p \in RefreshIngestCalls : CreateRepository(p)
    \/ \E p \in RefreshIngestCalls : SetAnalyzing(p)
    \/ \E p \in RefreshIngestCalls, lim \in RefreshIngestLimits : ListCommits(p, lim)
    \/ \E p \in RefreshIngestCalls : StoreCommit(p)
    \/ \E p \in RefreshIngestCalls : StoreDiff(p)
    \/ \E p \in RefreshIngestCalls : SetCompleted(p)
    \/ \E p \in RefreshIngestCalls : CatchStatus(p)

RefreshSpec == RefreshInit /\ [][RefreshNext]_vars

(* ---------------------- properties of refresh -------------------------- *)
\* C19: refresh processes only commits whose sha is not yet stored for the
\* repository: it never attempts the insert of a commit row for a sha that is
\* already stored, however many commits are stored.
C19_RefreshWritesOnlyNewShas ==
    \A p \in Refreshes :
        refreshes[p].pc = "commit" =>
            StoredCommit(<<refreshes[p].repoId[1],
                           refreshes[p].newCommits[refreshes[p].i + 1].sha>>) = {}

\* the upstream commit a diff key names
CommitOfDiff(key) == Upstream(key[2][1], key[2][2])[key[4]]

DiffKeys == {key \in DOMAIN r2 : key[1] = "repos"}

\* C20: a diff blob is written only for a commit the classifier judged
\* learning-worthy and that carries file data: after any sequence of ingest
\* and refresh calls no diff blob exists for a commit classified not worthy.
C20_DiffOnlyForWorthyCommits ==
    \A key \in DiffKeys :
        /\ analyzeCommit(CommitOfDiff(key)).isLearningWorthy
        /\ CommitOfDiff(key).files # Null
        /\ r2[key].commit_sha = key[4]

\* an ingest and a refresh both wrote a diff, and the refresh stored a
\* documentation commit without one
C20_Witness ==
    /\ DiffKey(RepoId("o", "r"), 1) \in DiffKeys
    /\ DiffKey(RepoId("o", "b"), 1) \in DiffKeys
    /\ DiffKey(RepoId("o", "b"), 2) \notin DiffKeys
    /\ StoredCommit(<<RepoId("o", "b"), 2>>) # {}
    /\ ~analyzeCommit(BigCommitAt(2)).isLearningWorthy
    /\ \E p \in Refreshes :
          /\ refreshes[p].pc = "done"
          /\ refreshes[p].result = Some([newCommits |-> 2, errors |-> <<>>])

(* ================= session calls, one after the other ================== *)
\* what a call hands back: the value it returns or the error it throws
Returned(value) == [threw |-> FALSE, error |-> "", value |-> value]
Threw(error) == [threw |-> TRUE, error |-> error, value |-> Null]

\* getTutorialWithContent, lines 479-494: the error it throws
TutorialError(tutorialId) ==
    IF getTutorial(tutorialId) = {} THEN "Tutorial not found"
    ELSE "Tutorial content not found"

\* TutorialService.getSession, lines 84-100, on the table as it stands
SessionView(table, sessionId) ==
    LET session == getSession(table, sessionId)
    IN  IF session = Null THEN Threw("Session not found")
        ELSE IF getTutorialWithContent(session[1].tutorial_id) = Null
        THEN Threw(TutorialError(session[1].tutorial_id))
        ELSE Returned(session)

\* the session ids the calls are made with: one more than can exist
CallSessionIds == 1..(NumLearners + 1)

\* startSession, lines 55-79
CallStartSession(tutorialId) ==
    /\ Len(learner_sessions) < NumLearners
    /\ args' = <<"startSession", tutorialId>>
    /\ \E ok \in BOOLEAN :
          IF getTutorialWithContent(tutorialId) = Null
          THEN /\ returned' = Threw(TutorialError(tutorialId))
               /\ UNCHANGED learner_sessions
          ELSE IF ~ok
          THEN /\ returned' = Threw("D1 error")
               /\ UNCHANGED learner_sessions
          ELSE /\ learner_sessions' = createSession(learner_sessions, tutorialId)
               /\ returned' = Returned(Some(learner_sessions'[Len(learner_sessions')]))
    /\ UNCHANGED <<tutorials, now, ops, walk, ingestVars, r2, taskVars>>

\* getSession, lines 84-100
CallGetSession(sessionId) ==
    /\ args' = <<"getSession", sessionId>>
    /\ returned' = SessionView(learner_sessions, sessionId)
    /\ UNCHANGED <<sessionVars, ingestVars, r2, taskVars>>

\* nextStep, lines 106-124
CallNextStep(sessionId) ==
    /\ args' = <<"nextStep", sessionId>>
    /\ LET session == getSession(learner_sessions, sessionId)
           loaded == getTutorialWithContent(session[1].tutorial_id)
       IN  \E ok \in BOOLEAN :
              IF session = Null
              THEN /\ returned' = Threw("Session not found")
                   /\ UNCHANGED learner_sessions
              ELSE IF loaded = Null
              THEN /\ returned' = Threw(TutorialError(session[1].tutorial_id))
                   /\ UNCHANGED learner_sessions
              ELSE IF ~ok
              THEN /\ returned' = Threw("D1 error")
                   /\ UNCHANGED learner_sessions
              ELSE /\ learner_sessions' =
                         IF AtLastStep(session[1], loaded[1].content)
                         THEN completeSession(learner_sessions, sessionId, now)
                         ELSE updateSessionProgress(learner_sessions, sessionId,
                                                    session[1].current_step + 1)
                   /\ returned' = SessionView(learner_sessions', sessionId)
    /\ UNCHANGED <<tutorials, now, ops, walk, ingestVars, r2, taskVars>>

\* previousStep, lines 130-147
CallPreviousStep(sessionId) ==
    /\ args' = <<"previousStep", sessionId>>
    /\ LET session == getSession(learner_sessions, sessionId)
       IN  \E ok \in BOOLEAN :
              IF session = Null
              THEN /\ returned' = Threw("Session not found")
                   /\ UNCHANGED learner_sessions
              ELSE IF AtFirstStep(session[1])
              THEN /\ returned' = SessionView(learner_sessions, sessionId)
                   /\ UNCHANGED learner_sessions
              ELSE IF ~ok
              THEN /\ returned' = Threw("D1 error")
                   /\ UNCHANGED learner_sessions
              ELSE /\ learner_sessions' =
                         updateSessionProgress(learner_sessions, sessionId,
                                               session[1].current_step - 1)
                   /\ returned' = SessionView(learner_sessions', sessionId)
    /\ UNCHANGED <<tutorials, now, ops, walk, ingestVars, r2, taskVars>>

\* completeSession, lines 152-154: the update alone, with no read
CallCompleteSession(sessionId) ==
    /\ args' = <<"completeSession", sessionId>>
    /\ \E ok \in BOOLEAN :
          IF ok
          THEN /\ learner_sessions' = completeSession(learner_sessions, sessionId, now)
               /\ returned' = Returned(Null)
          ELSE /\ returned' = Threw("D1 error")
               /\ UNCHANGED learner_sessions
    /\ UNCHANGED <<tutorials, now, ops, walk, ingestVars, r2, taskVars>>

SessionCallInit == SessionInit

SessionCallNext ==
    \/ \E tutorialId \in TutorialIds : CallStartSession(tutorialId)
    \/ \E sessionId \in CallSessionIds : CallGetSession(sessionId)
    \/ \E sessionId \in CallSessionIds : CallNextStep(sessionId)
    \/ \E sessionId \in CallSessionIds : CallPreviousStep(sessionId)
    \/ \E sessionId \in CallSessionIds : CallCompleteSession(sessionId)

SessionCallSpec == SessionCallInit /\ [][SessionCallNext]_vars

\* the stores a session call must leave alone
ForeignStores == <<repositories, commits, kv, r2, vectors, tutorials>>

\* C21: getSession, nextStep, previousStep and completeSession on a session id
\* that does not exist fail at once with the not-found error (unless the
\* database itself is down) and change no stored state.
C21_MissingSessionFails ==
    [][\A sessionId \in CallSessionIds :
          /\ getSession(learner_sessions, sessionId) = Null
          /\ \/ CallGetSession(sessionId)
             \/ CallNextStep(sessionId)
             \/ CallPreviousStep(sessionId)
             \/ CallCompleteSession(sessionId)
          => /\ returned'.error # "D1 error" =>
                    returned'.threw /\ returned'.error = "Session not found"
             /\ UNCHANGED <<learner_sessions, ForeignStores>>]_vars

\* C22: startSession, nextStep, previousStep and completeSession write only the
\* learner-session row of the session concerned: commit rows, tutorial rows,
\* content blobs and the rows of the other sessions are left unchanged.
C22_SessionCallsWriteOwnRowOnly ==
    [][/\ UNCHANGED ForeignStores
       /\ Len(learner_sessions') >= Len(learner_sessions)
       /\ Len(learner_sessions') > Len(learner_sessions) =>
              /\ args'[1] = "startSession"
              /\ Len(learner_sessions') = Len(learner_sessions) + 1
       /\ \A n \in DOMAIN learner_sessions :
              learner_sessions'[n] # learner_sessions[n] =>
                  /\ args'[1] \in {"nextStep", "previousStep", "completeSession"}
                  /\ args'[2] = learner_sessions[n].id
                  /\ learner_sessions'[n].id = learner_sessions[n].id
                  /\ learner_sessions'[n].tutorial_id = learner_sessions[n].tutorial_id]_vars

\* two sessions side by side: the first completed, the second moved on by
\* nextStep and still open
C22_Witness ==
    /\ Len(learner_sessions) = 2
    /\ learner_sessions[1].completed_at # Null
    /\ learner_sessions[2].completed_at = Null
    /\ learner_sessions[2].current_step >= 1
    /\ args = <<"nextStep", 2>>
    /\ returned = Returned(Some(learner_sessions[2]))

(* ========================== analyzeCommit calls ======================== *)
Repeat(file, n) == [k \in 1..n |-> file]

SrcFile(lines) == File("ts", {}, lines, 0)
TestFile(lines) == File("ts", {"test"}, lines, 0)
DocFile(lines) == File("md", {}, lines, 0)
YmlFile(lines) == File("yml", {}, lines, 0)
PackageLock(lines) == File("json", {"package-lock.json"}, lines, 0)
YarnLock(lines) == File("lock", {"yarn.lock"}, lines, 0)

\* the file lists classified: single files on each side of every line
\* threshold, lists on each side of every file-count threshold, lists on each
\* side of the 70% ratios, configuration-only lists and a mixed one
ClassifyFileLists ==
    { Repeat(SrcFile(lines), 1) :
        lines \in {MinLinesChanged - 1, MinLinesChanged, FixMinLines - 1, FixMinLines,
                   RefactorMaxLines, RefactorMaxLines + 1,
                   MaxLinesChanged, MaxLinesChanged + 1} }
    \cup { Repeat(SrcFile(2), n) :
             n \in {FixMaxFiles, FixMaxFiles + 1, RefactorMaxFiles, RefactorMaxFiles + 1} }
    \cup { Repeat(SrcFile(lines), n) :
             lines \in {0, 1, 40}, n \in {BulkFileLimit, BulkFileLimit + 1} }
    \cup { Repeat(TestFile(2), n) \o Repeat(SrcFile(2), 10 - n) : n \in {7, 8} }
    \cup { Repeat(DocFile(2), n) \o Repeat(SrcFile(2), 10 - n) : n \in {7, 8} }
    \cup { <<YmlFile(10), PackageLock(10)>>, <<YmlFile(10), YarnLock(10)>>,
           <<YmlFile(10), SrcFile(10)>> }

\* the messages classified: the keywords alone and in pairs that compete,
\* with and without a version number
ClassifyMessages ==
    { [len |-> 20, has |-> has, semver |-> semver] :
        has \in { {}, {"add"}, {"feat", "fix"}, {"implement", "clean", "test"},
                  {"fix"}, {"bug", "refactor"}, {"resolve", "doc"},
                  {"refactor"}, {"improve", "test"}, {"clean"},
                  {"test"}, {"test", "readme"}, {"doc"}, {"readme"},
                  {"add", "bump"}, {"release"}, {"fix", "version"} },
        semver \in BOOLEAN }

ClassifyInputs ==
    { [sha |-> 1, date |-> 0, message |-> message, files |-> files] :
        message \in ClassifyMessages,
        files \in {Null} \cup {Some(list) : list \in ClassifyFileLists} }

\* mutant: the analyzer keeps its first analysis and hands it out again
ClassifyRemembering(commit) ==
    /\ args' = <<"analyzeCommit", commit>>
    /\ returned' = IF returned = Null THEN Returned(analyzeCommit(commit)) ELSE returned
    /\ UNCHANGED <<ingestVars, r2, sessionVars, taskVars>>

\* analyzer.analyzeCommit(commit)
Classify(commit) ==
    /\ args' = <<"analyzeCommit", commit>>
    /\ returned' = Returned(analyzeCommit(commit))
    /\ UNCHANGED <<ingestVars, r2, sessionVars, taskVars>>

\* no repository is stored: the analyzer is given commits directly
ClassifyInit == IngestInit

ClassifyNext == \E commit \in ClassifyInputs : Classify(commit)

ClassifySpec == ClassifyInit /\ [][ClassifyNext]_vars

(* ----------------------- properties of classify ------------------------ *)
\* the state holds the outcome of an analyzeCommit call
Classified == args # Null /\ args[1] = "analyzeCommit"

\* what the classified commit is made of
FilesOf(commit) == IF commit.files = Null THEN <<>> ELSE commit.files[1]
LinesOf(commit) ==
    LET files == FilesOf(commit)
        Sum[n \in 0..Len(files)] ==
            IF n = 0 THEN 0 ELSE Sum[n - 1] + files[n].additions + files[n].deletions
    IN  Sum[Len(files)]

PassesSizeChecks(commit) ==
    /\ Len(FilesOf(commit)) <= BulkFileLimit
    /\ LinesOf(commit) >= MinLinesChanged
    /\ LinesOf(commit) <= MaxLinesChanged

\* C24: classify rejects a commit as a bulk operation whenever it has more
\* than 15 files, before any other rule; otherwise as too small below 5 lines
\* and as likely generated above 500; in the three cases the analysis is not
\* worthy, its category stays `other` and no later rule leaves its reason.
C24_SizeChecksFirst ==
    Classified =>
        LET commit == args[2]
            analysis == returned.value
            expected ==
                IF Len(FilesOf(commit)) > BulkFileLimit
                THEN "Too many files changed (bulk operation)"
                ELSE IF LinesOf(commit) < MinLinesChanged THEN "Very small change"
                ELSE "Too many lines changed (likely auto-generated)"
        IN  /\ ~PassesSizeChecks(commit) =>
                   /\ ~analysis.isLearningWorthy
                   /\ analysis.category = "other"
                   /\ analysis.reason = expected
            /\ PassesSizeChecks(commit) =>
                   analysis.reason \notin {"Too many files changed (bulk operation)",
                                           "Very small change",
                                           "Too many lines changed (likely auto-generated)"}

\* a version-bump "add" commit with 16 empty files: bulk and too small at once
C24_Witness ==
    /\ Classified
    /\ Len(FilesOf(args[2])) > BulkFileLimit
    /\ LinesOf(args[2]) < MinLinesChanged
    /\ "add" \in args[2].message.has
    /\ args[2].message.semver
    /\ returned.value.reason = "Too many files changed (bulk operation)"

\* the share of the files that the predicate holds of exceeds 70%
MostFiles(files, hits) == 10 * Cardinality(hits) > 7 * Len(files)

\* C25: for a commit that passes the size checks the category is the first
\* match in the order feature (add/feat/implement), fix (fix/bug/resolve),
\* refactor (refactor/improve/clean), test (message has test, or more than
\* 70% test paths), docs (message has doc/readme, or more than 70% doc
\* files), else other.
C25_CategoryIsFirstMatch ==
    Classified /\ PassesSizeChecks(args[2]) =>
        LET has == args[2].message.has
            files == FilesOf(args[2])
            testPaths == {n \in 1..Len(files) :
                            files[n].has \cap {"test", "spec", "__tests__"} # {}}
            docFiles == {n \in 1..Len(files) :
                            files[n].ext \in {"md", "txt", "rst"} \/ "readme" \in files[n].has}
            matches ==
                << has \cap {"add", "feat", "implement"} # {},
                   has \cap {"fix", "bug", "resolve"} # {},
                   has \cap {"refactor", "improve", "clean"} # {},
                   "test" \in has \/ MostFiles(files, testPaths),
                   has \cap {"doc", "readme"} # {} \/ MostFiles(files, docFiles),
                   TRUE >>
            names == <<"feature", "fix", "refactor", "test", "docs", "other">>
            first == CHOOSE n \in 1..6 : matches[n] /\ \A k \in 1..(n - 1) : ~matches[k]
        IN  returned.value.category = names[first]

\* a message with a feature and a fix keyword is a feature
C25_Witness ==
    /\ Classified
    /\ PassesSizeChecks(args[2])
    /\ args[2].message.has = {"feat", "fix"}
    /\ returned.value.category = "feature"

\* the file list is made of configuration files only
OnlyConfigFiles(files) ==
    \A n \in 1..Len(files) :
        \/ files[n].ext \in {"json", "yml", "yaml", "toml", "ini", "config"}
        \/ files[n].has \cap {"package.json", "package-lock.json", "yarn.lock",
                              ".gitignore", "dockerfile"} # {}

\* the message has a version number and one of bump / release / version
VersionMessage(message) ==
    message.semver /\ message.has \cap {"bump", "release", "version"} # {}

\* C26: without an override, worthiness follows the category: feature and
\* test always, fix iff at least 10 lines and at most 5 files, refactor iff at
\* most 8 files and at most 200 lines, docs and other never.
C26_WorthinessFollowsCategory ==
    /\ Classified
    /\ PassesSizeChecks(args[2])
    /\ ~OnlyConfigFiles(FilesOf(args[2]))
    /\ ~VersionMessage(args[2].message)
    => LET category == returned.value.category
           nfiles == Len(FilesOf(args[2]))
           lines == LinesOf(args[2])
       IN  returned.value.isLearningWorthy <=>
              \/ category \in {"feature", "test"}
              \/ category = "fix" /\ lines >= FixMinLines /\ nfiles <= FixMaxFiles
              \/ category = "refactor" /\ nfiles <= RefactorMaxFiles
                                       /\ lines <= RefactorMaxLines

\* a fix of exactly 10 lines in one file is worthy
C26_Witness ==
    /\ Classified
    /\ returned.value.category = "fix"
    /\ LinesOf(args[2]) = FixMinLines
    /\ Len(FilesOf(args[2])) = 1
    /\ returned.value.isLearningWorthy

\* C27: a commit is never worthy when all of its files are configuration
\* files, nor when its message has a version number together with bump,
\* release or version, whatever its category and statistics.
C27_OverridesAlwaysWin ==
    Classified =>
        /\ OnlyConfigFiles(FilesOf(args[2])) => ~returned.value.isLearningWorthy
        /\ VersionMessage(args[2].message) => ~returned.value.isLearningWorthy

\* a feature commit over a .yml file and yarn.lock is not worthy
C27_Witness ==
    /\ Classified
    /\ PassesSizeChecks(args[2])
    /\ args[2].message.has = {"add"}
    /\ ~args[2].message.semver
    /\ args[2].files = Some(<<YmlFile(10), YarnLock(10)>>)
    /\ returned.value.category = "feature"
    /\ ~returned.value.isLearningWorthy
    /\ returned.value.reason = "Only configuration changes"

(* ------------------- parseRepositoryUrl on URL texts ------------------- *)
\* A text is the sequence of its characters.
HttpsGitHub == <<"h","t","t","p","s",":","/","/","g","i","t","h","u","b",".","c","o","m","/">>
HttpGitHub == <<"h","t","t","p",":","/","/","g","i","t","h","u","b",".","c","o","m","/">>
SshGitHub == <<"g","i","t","@","g","i","t","h","u","b",".","c","o","m",":">>
BareGitHub == <<"g","i","t","h","u","b",".","c","o","m","/">>
HttpsGitLab == <<"h","t","t","p","s",":","/","/","g","i","t","l","a","b",".","c","o","m","/">>
DotGit == <<".","g","i","t">>

StartsWith(text, literal) ==
    Len(text) >= Len(literal) /\ SubSeq(text, 1, Len(literal)) = literal

After(text, literal) == SubSeq(text, Len(literal) + 1, Len(text))

\* the first position of text that holds one of chars, 0 when there is none
FirstOf(text, chars) ==
    IF \E n \in 1..Len(text) : text[n] \in chars
    THEN CHOOSE n \in 1..Len(text) :
            text[n] \in chars /\ \A k \in 1..(n - 1) : text[k] \notin chars
    ELSE 0

\* ([^\/]+)\/([^\/\.]+)(\.git)?$ on the text after the literal head: the groups
\* when it matches, Null when it does not
matchOwnerRepo(rest) ==
    LET slash == FirstOf(rest, {"/"})
        owner == SubSeq(rest, 1, slash - 1)
        tail == SubSeq(rest, slash + 1, Len(rest))
        stop == FirstOf(tail, {"/", "."})
        repo == IF stop = 0 THEN tail ELSE SubSeq(tail, 1, stop - 1)
        suffix == IF stop = 0 THEN <<>> ELSE SubSeq(tail, stop, Len(tail))
    IN  IF slash > 1 /\ repo # <<>> /\ suffix \in {<<>>, DotGit}
        THEN Some([owner |-> owner, repo |-> repo])
        ELSE Null

\* the three patterns, in the order of the source
UrlPatternHeads == << {HttpsGitHub, HttpGitHub}, {SshGitHub}, {BareGitHub} >>

\* the argument is a string or, at run time, anything else
parseRepositoryUrlText(url) ==
    IF ~url.isString
    THEN [owner |-> <<>>, repo |-> <<>>, isValid |-> FALSE, error |-> "Failed to parse URL"]
    ELSE LET matches == { n \in 1..3 : \E head \in UrlPatternHeads[n] :
                            /\ StartsWith(url.text, head)
                            /\ matchOwnerRepo(After(url.text, head)) # Null }
         IN  IF matches = {}
             THEN [owner |-> <<>>, repo |-> <<>>, isValid |-> FALSE,
                   error |-> "Invalid GitHub URL format"]
             ELSE LET n == CHOOSE n \in matches : \A k \in matches : n <= k
                      head == CHOOSE head \in UrlPatternHeads[n] :
                                /\ StartsWith(url.text, head)
                                /\ matchOwnerRepo(After(url.text, head)) # Null
                      match == matchOwnerRepo(After(url.text, head))[1]
                  IN  [owner |-> match.owner, repo |-> match.repo, isValid |-> TRUE,
                       error |-> ""]

MaxUrlBody == 5

UrlBodyChars == {"o", "r", "/", "."}

UrlBodies == UNION { [1..n -> UrlBodyChars] : n \in 0..MaxUrlBody }

\* the texts parsed: a head or none, a body, ".git" or not
UrlTexts ==
    { head \o body \o suffix :
        head \in {<<>>, HttpsGitHub, HttpGitHub, SshGitHub, BareGitHub, HttpsGitLab},
        body \in UrlBodies,
        suffix \in {<<>>, DotGit} }

UrlArguments ==
    { [isString |-> TRUE, text |-> text] : text \in UrlTexts }
        \cup { [isString |-> FALSE, text |-> <<>>] }

\* the stores as they are before any operation
EmptyStores ==
    /\ repositories = EmptyBag
    /\ commits = EmptyBag
    /\ kv = <<>>
    /\ r2 = <<>>
    /\ vectors = {}
    /\ calls = [p \in Calls |-> IdleCall]
    /\ tutorials = EmptyBag
    /\ learner_sessions = <<>>
    /\ now = 0
    /\ ops = EmptyBag
    /\ walk = <<>>
    /\ refreshes = <<>>
    /\ gens = <<>>
    /\ clones = <<>>

\* one call: the argument is drawn first, the call returns next
ParseUrl ==
    /\ args # Null
    /\ args[1] = "parseRepositoryUrl"
    /\ returned = Null
    /\ returned' = Returned(parseRepositoryUrlText(args[2]))
    /\ UNCHANGED <<ingestVars, r2, sessionVars, taskVars, args>>

ParseUrlInit ==
    /\ EmptyStores
    /\ args \in { <<"parseRepositoryUrl", url>> : url \in UrlArguments }
    /\ returned = Null

ParseUrlNext == ParseUrl

ParseUrlSpec == ParseUrlInit /\ [][ParseUrlNext]_vars

(* ------------------- properties of parseRepositoryUrl ------------------ *)
ParsedUrl == args # Null /\ args[1] = "parseRepositoryUrl" /\ returned # Null

\* owners: letters; names: letters and dots, a letter at both ends
OwnerTexts == UNION { [1..n -> {"o", "r"}] : n \in 1..MaxUrlBody }

NameTexts ==
    { name \in UNION { [1..n -> {"o", "r", "."}] : n \in 1..MaxUrlBody } :
        name[1] # "." /\ name[Len(name)] # "." }

ListedHeads == {HttpsGitHub, BareGitHub, SshGitHub}

\* the texts of the three listed shapes, each with its owner and its name
ListedShapes ==
    UNION { { [text |-> head \o owner \o <<"/">> \o name \o suffix,
               owner |-> owner, repo |-> name] :
                head \in ListedHeads, suffix \in {<<>>, DotGit},
                name \in {name \in NameTexts : Len(owner) + Len(name) < MaxUrlBody} } :
            owner \in OwnerTexts }

ListedTexts == { shape.text : shape \in ListedShapes }

\* C28 (first half): a text of one of the three listed shapes is accepted
\* for every owner and name, and the result carries that owner and that name
\* without the .git suffix.
C28_AcceptsEveryOwnerAndName ==
    ParsedUrl /\ args[2].isString /\ args[2].text \in ListedTexts =>
        /\ ~returned.threw
        /\ returned.value.isValid
        /\ [text |-> args[2].text, owner |-> returned.value.owner,
            repo |-> returned.value.repo] \in ListedShapes

(* ------------------ storage maintenance: one call ---------------------- *)
\* For a maintenance call, args holds the operation, its argument and what
\* the stores do while it runs: the requests that fail (healthCheck) or the
\* position of the request that fails (cleanup, 0 for none).
Drop(store, key) == [k \in DOMAIN store \ {key} |-> store[k]]

HealthKey == <<"health-check">>

HealthRequests ==
    [database |-> {"database.list"},
     kv |-> {"kv.put", "kv.get", "kv.delete"},
     r2 |-> {"r2.put", "r2.get", "r2.delete"},
     vectorize |-> {"vectorize.describe"}]

HealthFaults == SUBSET (UNION {HealthRequests[store] : store \in DOMAIN HealthRequests})

\* lines 298-305 and 307-314: write the probe key, read it back, delete it;
\* the flag is assigned between the read and the delete
ProbeRoundTrip(store, faults, put, get, delete) ==
    IF put \in faults THEN [store |-> store, flag |-> FALSE]
    ELSE LET written == Put(store, HealthKey, "ok")
         IN  IF get \in faults THEN [store |-> written, flag |-> FALSE]
             ELSE LET flag == written[HealthKey] = "ok"
                  IN  IF delete \in faults THEN [store |-> written, flag |-> flag]
                      ELSE [store |-> Drop(written, HealthKey), flag |-> flag]

HealthCheck ==
    /\ args # Null
    /\ args[1] = "healthCheck"
    /\ returned = Null
    /\ LET faults == args[2]
           kvProbe == ProbeRoundTrip(kv, faults, "kv.put", "kv.get", "kv.delete")
           r2Probe == ProbeRoundTrip(r2, faults, "r2.put", "r2.get", "r2.delete")
       IN  /\ kv' = kvProbe.store
           /\ r2' = r2Probe.store
           /\ returned' = Returned([database |-> "database.list" \notin faults,
                                    kv |-> kvProbe.flag,
                                    r2 |-> r2Probe.flag,
                                    \* getIndexStats makes no request
                                    vectorize |-> TRUE])
    /\ UNCHANGED <<repositories, commits, vectors, calls, sessionVars, taskVars, args>>

\* blob keys: repos/<id>/snapshots/<branch>/<sha>.tar.gz and
\* sessions/<id>/workspace/<step>.json, next to DiffKey and TutorialContentKey
SnapshotKey(repo_id, branch, sha) == <<"repos", repo_id, "snapshots", branch, sha>>
WorkspaceKey(session_id, step_id) == <<"sessions", session_id, "workspace", step_id>>
TutorialCacheKey(tutorial_id) == <<"tutorial", tutorial_id>>
SessionStateKey(session_id) == <<"session", session_id>>

\* the blob keys of the model in the order a listing returns them
BlobKeyOrder ==
    << DiffKey(1, 1), DiffKey(1, 2), SnapshotKey(1, "main", 1), DiffKey(2, 1),
       WorkspaceKey(1, 0), WorkspaceKey(1, 1),
       TutorialContentKey(1), TutorialContentKey(2) >>

HasPrefix(key, prefix) ==
    Len(key) >= Len(prefix) /\ \A n \in 1..Len(prefix) : key[n] = prefix[n]

\* keys that differ in their last part only (a sha, a step), in key order
RECURSIVE InKeyOrder(_)
InKeyOrder(keys) ==
    IF keys = {} THEN <<>>
    ELSE IF Cardinality(keys) = 1 THEN <<CHOOSE key \in keys : TRUE>>
    ELSE LET first == CHOOSE key \in keys :
                         \A other \in keys : key[Len(key)] <= other[Len(other)]
         IN  <<first>> \o InKeyOrder(keys \ {first})

\* R2Service.list with a prefix
listKeys(bucket, prefix) ==
    InKeyOrder({key \in DOMAIN bucket : HasPrefix(key, prefix)})

\* one list request and one delete request per object listed
DeleteUnderPrefix(bucket, prefix) ==
    <<[store |-> "r2", op |-> "list", key |-> prefix]>>
        \o [n \in 1..Len(listKeys(bucket, prefix)) |->
              [store |-> "r2", op |-> "delete", key |-> listKeys(bucket, prefix)[n]]]

\* lines 200-212
deleteRepoData(bucket, repo_id) ==
    DeleteUnderPrefix(bucket, <<"repos", repo_id, "snapshots">>)
        \o DeleteUnderPrefix(bucket, <<"repos", repo_id, "diffs">>)

\* lines 214-221
deleteTutorialData(bucket, tutorial_id) ==
    DeleteUnderPrefix(bucket, <<"tutorials", tutorial_id>>)

\* lines 223-230
deleteSessionData(bucket, session_id) ==
    DeleteUnderPrefix(bucket, <<"sessions", session_id>>)

\* vector ids: <repoId>:<sha> and tutorial:<tutorialId>
CommitVectorId(repoId, sha) == <<"commit", repoId, sha>>
TutorialVectorId(tutorialId) == <<"tutorial", tutorialId>>

\* part_000 427-436: deleteByIds with the one id given, taken literally
deleteCommitEmbeddings(repoId) ==
    <<[store |-> "vectorize", op |-> "delete", key |-> CommitVectorId(repoId, "*")]>>

deleteTutorialEmbedding(tutorialId) ==
    <<[store |-> "vectorize", op |-> "delete", key |-> TutorialVectorId(tutorialId)]>>

kvDelete(key) == <<[store |-> "kv", op |-> "delete", key |-> key]>>

\* mutant: the key-value delete comes first
cleanupRequestsKvFirst(operation, id) ==
    CASE operation = "cleanupRepositoryData" ->
            kvDelete(AnalysisKey(id)) \o deleteRepoData(r2, id) \o deleteCommitEmbeddings(id)
      [] operation = "cleanupTutorialData" ->
            kvDelete(TutorialCacheKey(id)) \o deleteTutorialData(r2, id)
                \o deleteTutorialEmbedding(id)
      [] operation = "cleanupSessionData" ->
            kvDelete(SessionStateKey(id)) \o deleteSessionData(r2, id)

\* lines 327-365: the requests of a cleanup in the order they are made
cleanupRequests(operation, id) ==
    CASE operation = "cleanupRepositoryData" ->
            deleteRepoData(r2, id) \o deleteCommitEmbeddings(id) \o kvDelete(AnalysisKey(id))
      [] operation = "cleanupTutorialData" ->
            deleteTutorialData(r2, id) \o deleteTutorialEmbedding(id)
                \o kvDelete(TutorialCacheKey(id))
      [] operation = "cleanupSessionData" ->
            deleteSessionData(r2, id) \o kvDelete(SessionStateKey(id))

\* the stores after one request that worked
AfterRequest(stores, request) ==
    CASE request.op = "list" -> stores
      [] request.store = "r2" -> [stores EXCEPT !.r2 = Drop(@, request.key)]
      [] request.store = "vectorize" -> [stores EXCEPT !.vectors = @ \ {request.key}]
      [] request.store = "kv" -> [stores EXCEPT !.kv = Drop(@, request.key)]

RECURSIVE AfterRequests(_, _, _)
AfterRequests(stores, requests, n) ==
    IF n = 0 THEN stores
    ELSE AfterRequest(AfterRequests(stores, requests, n - 1), requests[n])

StoreError(request) == request.store \o " request failed"

CleanupOperations == {"cleanupRepositoryData", "cleanupTutorialData", "cleanupSessionData"}

\* the try block runs the requests up to the one that fails; the catch logs
\* and throws the same error again
Cleanup ==
    /\ args # Null
    /\ args[1] \in CleanupOperations
    /\ returned = Null
    /\ LET requests == cleanupRequests(args[1], args[2])
           failAt == args[3]
           fails == failAt \in 1..Len(requests)
           after == AfterRequests([r2 |-> r2, vectors |-> vectors, kv |-> kv], requests,
                                  IF fails THEN failAt - 1 ELSE Len(requests))
       IN  /\ r2' = after.r2
           /\ vectors' = after.vectors
           /\ kv' = after.kv
           /\ returned' = IF fails THEN Threw(StoreError(requests[failAt]))
                          ELSE Returned(Null)
    /\ UNCHANGED <<repositories, commits, calls, sessionVars, taskVars, args>>

MaxRequests == 7

\* what the stores hold before the call
MaintenanceBlobs ==
    { {}, {DiffKey(1, 1)}, {DiffKey(1, 1), DiffKey(1, 2), DiffKey(2, 1)},
      {SnapshotKey(1, "main", 1), DiffKey(1, 1), DiffKey(1, 2), TutorialContentKey(1)},
      {WorkspaceKey(1, 0), WorkspaceKey(1, 1), TutorialContentKey(1), TutorialContentKey(2)},
      {BlobKeyOrder[n] : n \in 1..Len(BlobKeyOrder)} }

MaintenanceVectors ==
    { {}, {CommitVectorId(1, "a"), CommitVectorId(1, "*"), CommitVectorId(2, "a"),
           TutorialVectorId(1), TutorialVectorId(2)} }

MaintenanceKeys ==
    { {}, {AnalysisKey(1), AnalysisKey(2), TutorialCacheKey(1), TutorialCacheKey(2),
           SessionStateKey(1), SessionStateKey(2)} }

MaintenanceCalls ==
    { <<"healthCheck", faults>> : faults \in HealthFaults }
        \cup { <<operation, id, failAt>> :
                 operation \in CleanupOperations, id \in {1, 2}, failAt \in 0..MaxRequests }

MaintenanceInit ==
    /\ repositories = EmptyBag
    /\ commits = EmptyBag
    /\ calls = [p \in Calls |-> IdleCall]
    /\ tutorials = EmptyBag
    /\ learner_sessions = <<>>
    /\ now = 0
    /\ ops = EmptyBag
    /\ walk = <<>>
    /\ refreshes = <<>>
    /\ gens = <<>>
    /\ clones = <<>>
    /\ r2 \in { [key \in blobs |-> "object"] : blobs \in MaintenanceBlobs }
    /\ vectors \in MaintenanceVectors
    /\ kv \in { [key \in keys |-> "value"] : keys \in MaintenanceKeys }
    /\ args \in MaintenanceCalls
    /\ returned = Null

MaintenanceNext ==
    \/ HealthCheck
    \/ Cleanup

MaintenanceSpec == MaintenanceInit /\ [][MaintenanceNext]_vars

(* --------------------- properties of maintenance ----------------------- *)
HealthChecked == args # Null /\ args[1] = "healthCheck" /\ returned # Null

\* C29: healthCheck never throws, and a probe in which a request fails
\* makes the flag of its store false.
C29_FailingProbeClearsFlag ==
    HealthChecked =>
        /\ ~returned.threw
        /\ \A store \in {"database", "kv", "r2"} :
              args[2] \cap HealthRequests[store] # {} => ~returned.value[store]

CleanedUp ==
    /\ args # Null
    /\ args[1] \in CleanupOperations
    /\ returned = Null
    /\ returned' # Null

\* the objects, the vector and the key a cleanup is to delete
BlobPrefixOf(operation) ==
    CASE operation = "cleanupRepositoryData" -> "repos"
      [] operation = "cleanupTutorialData" -> "tutorials"
      [] operation = "cleanupSessionData" -> "sessions"

BlobsToDelete ==
    {key \in DOMAIN r2 : key[1] = BlobPrefixOf(args[1]) /\ key[2] = args[2]}

VectorsToDelete ==
    CASE args[1] = "cleanupRepositoryData" -> {CommitVectorId(args[2], "*")}
      [] args[1] = "cleanupTutorialData" -> {TutorialVectorId(args[2])}
      [] args[1] = "cleanupSessionData" -> {}

KeysToDelete ==
    CASE args[1] = "cleanupRepositoryData" -> {AnalysisKey(args[2])}
      [] args[1] = "cleanupTutorialData" -> {TutorialCacheKey(args[2])}
      [] args[1] = "cleanupSessionData" -> {SessionStateKey(args[2])}

BlobsDeleted == DOMAIN r2' = DOMAIN r2 \ BlobsToDelete
VectorsDeleted == vectors' = vectors \ VectorsToDelete
KeysDeleted == DOMAIN kv' = DOMAIN kv \ KeysToDelete

\* C30: a cleanup deletes from the blob store, then from the vector index,
\* then from the key-value store: a call that returns has done all three; a
\* call that fails throws the error of the request that failed, keeps the
\* deletes made before it and makes none after it.
C30_CleanupStopsAtFirstFailure ==
    [][CleanedUp =>
        /\ DOMAIN r2' \subseteq DOMAIN r2
        /\ DOMAIN r2 \ DOMAIN r2' \subseteq BlobsToDelete
        /\ \A key \in DOMAIN r2' : r2'[key] = r2[key]
        /\ \A key \in DOMAIN kv' : kv'[key] = kv[key]
        /\ IF ~returned'.threw
           THEN BlobsDeleted /\ VectorsDeleted /\ KeysDeleted
           ELSE CASE returned'.error = "r2 request failed" ->
                        vectors' = vectors /\ kv' = kv
                  [] returned'.error = "vectorize request failed" ->
                        BlobsDeleted /\ vectors' = vectors /\ kv' = kv
                  [] returned'.error = "kv request failed" ->
                        BlobsDeleted /\ VectorsDeleted /\ kv' = kv
                  [] OTHER -> FALSE]_vars

\* the vector delete of repository 1 failed: its two diffs are gone, its
\* vector and its status key are still there
C30_Witness ==
    /\ args # Null
    /\ args[1] = "cleanupRepositoryData"
    /\ args[2] = 1
    /\ returned = Threw("vectorize request failed")
    /\ DOMAIN r2 = {DiffKey(2, 1)}
    /\ CommitVectorId(1, "*") \in vectors
    /\ AnalysisKey(1) \in DOMAIN kv

(* ------------------- workspace files and their tree -------------------- *)
\* Here a path is the sequence of its segments, the last one a file name.
\* A directory name is its text with whether it ends with the name of a
\* skipped directory (bin and cabin both end with bin); a file name is its
\* text with its extension in lower case.
DirEndsWithSkipDir(dir) == dir \in {"bin", "cabin"}

FileName(name, ext) == [name |-> name, ext |-> ext]

Parent(path) == SubSeq(path, 1, Len(path) - 1)

\* the tree entry of a blob: path.includes(dir) holds when a directory
\* segment followed by "/" ends with the name of a skipped directory
BlobItem(dirs, file, size) ==
    TreeItem(dirs \o <<file.name>>, "blob", file.name, file.ext,
             \E n \in 1..Len(dirs) : DirEndsWithSkipDir(dirs[n]), size)

DirItem(dirs) == TreeItem(dirs, "tree", dirs[Len(dirs)], "", FALSE, 0)

\* the keys every object inherits; only the one the inputs use is listed
ObjectPrototypeKeys == { <<"constructor">> }

\* folderMap[path] in a condition: an own entry or an inherited property
Truthy(folderMap, path) ==
    \/ \E n \in 1..Len(folderMap) : folderMap[n] = path
    \/ path \in ObjectPrototypeKeys

\* lines 87-105: the folder paths in the order they enter folderMap
RECURSIVE createFolders(_, _, _, _)
createFolders(folderMap, files, n, i) ==
    IF n > Len(files) THEN folderMap
    ELSE IF i > Len(files[n].path) - 1 THEN createFolders(folderMap, files, n + 1, 1)
    ELSE LET folderPath == SubSeq(files[n].path, 1, i)
         IN  createFolders(IF Truthy(folderMap, folderPath) THEN folderMap
                           ELSE Append(folderMap, folderPath),
                           files, n, i + 1)

\* lines 108-116 and 138-143: where a node is pushed. An inherited property
\* has no children array, so the push on it throws a TypeError.
PushTarget(folderMap, parentPath) ==
    IF parentPath # <<>> /\ Truthy(folderMap, parentPath)
    THEN IF parentPath \in ObjectPrototypeKeys THEN "TypeError" ELSE "folder"
    ELSE "root"

Placement(folderMap, type, path) ==
    [id |-> path, name |-> path[Len(path)], type |-> type, path |-> path,
     under |-> IF PushTarget(folderMap, Parent(path)) = "folder"
               THEN Some(Parent(path)) ELSE Null]

\* lines 74-147: the nodes in the order they are pushed, each with the folder
\* it is pushed under (none: the root array)
buildFileTree(githubFiles) ==
    LET folderMap == createFolders(<<>>, githubFiles, 1, 1)
        throws ==
            \/ \E n \in 1..Len(folderMap) :
                  PushTarget(folderMap, Parent(folderMap[n])) = "TypeError"
            \/ \E n \in 1..Len(githubFiles) :
                  PushTarget(folderMap, Parent(githubFiles[n].path)) = "TypeError"
    IN  IF throws THEN Threw("TypeError")
        ELSE Returned([n \in 1..Len(folderMap) |-> Placement(folderMap, "folder", folderMap[n])]
                \o [n \in 1..Len(githubFiles) |->
                      Placement(folderMap, "file", githubFiles[n].path)])

\* the blobs of the listings, in the order of a listing
WorkspaceDirs ==
    << <<>>, <<"bin">>, <<"cabin">>, <<"constructor">>, <<"src">>, <<"src", "bin">>,
       <<"src", "lib">> >>

WorkspaceFileNames ==
    << FileName("Gemfile", ""), FileName("LOGO.PNG", "png"), FileName("Makefile", ""),
       FileName("a.ts", "ts"), FileName("logo.png", "png"), FileName("yarn.lock", "lock") >>

WorkspaceSizes == {100, MaxCloneFileSize - 1, MaxCloneFileSize, MaxCloneFileSize + 1}

MaxTreeFiles == 3

\* the directory entries a listing holds before the blob at position n
DirItemsBefore(blobs, n) ==
    LET dirs == Parent(blobs[n].path)
        new == {i \in 1..Len(dirs) :
                  \A k \in 1..(n - 1) :
                      ~HasPrefix(blobs[k].path, SubSeq(dirs, 1, i))}
    IN  [i \in 1..Cardinality(new) |->
            DirItem(SubSeq(dirs, 1, Len(dirs) - Cardinality(new) + i))]

RECURSIVE Listing(_, _)
Listing(blobs, n) ==
    IF n = 0 THEN <<>>
    ELSE Listing(blobs, n - 1) \o DirItemsBefore(blobs, n) \o <<blobs[n]>>

\* one blob of every kind, and up to MaxTreeFiles source files side by side
WorkspaceSourceBlobs ==
    [n \in 1..(2 * Len(WorkspaceDirs)) |->
        BlobItem(WorkspaceDirs[(n + 1) \div 2],
                 IF n % 2 = 1 THEN FileName("a.ts", "ts") ELSE FileName("b.ts", "ts"), 100)]

WorkspaceListings ==
    { Listing(<<BlobItem(WorkspaceDirs[d], WorkspaceFileNames[f], size)>>, 1) :
        d \in 1..Len(WorkspaceDirs), f \in 1..Len(WorkspaceFileNames),
        size \in WorkspaceSizes }
    \cup
    { Listing(SelectSeq(WorkspaceSourceBlobs, LAMBDA item : item.path \in chosen),
              Cardinality(chosen)) :
        chosen \in { c \in SUBSET {WorkspaceSourceBlobs[n].path :
                                      n \in 1..Len(WorkspaceSourceBlobs)} :
                        Cardinality(c) \in 2..MaxTreeFiles } }

\* lines 37-50: the listing is filtered and the tree is built from the rest
\* (what a file node holds as content is CloneFetchFile's)
BuildWorkspace ==
    /\ args # Null
    /\ args[1] = "cloneRepository"
    /\ returned = Null
    /\ returned' = buildFileTree(relevantFiles(args[2]))
    /\ UNCHANGED <<ingestVars, r2, sessionVars, taskVars, args>>

WorkspaceInit ==
    /\ EmptyStores
    /\ args \in { <<"cloneRepository", listing>> : listing \in WorkspaceListings }
    /\ returned = Null

WorkspaceNext == BuildWorkspace

WorkspaceSpec == WorkspaceInit /\ [][WorkspaceNext]_vars

(* ---------------------- properties of the workspace ------------------- *)
WorkspaceBuilt ==
    args # Null /\ args[1] = "cloneRepository" /\ returned # Null /\ ~returned.threw

\* the blobs of the listing and the paths of the file nodes of the tree
ListedBlobs == {n \in 1..Len(args[2]) : args[2][n].type = "blob"}

FileNodePaths ==
    {returned.value[n].path : n \in {k \in 1..Len(returned.value) :
                                       returned.value[k].type = "file"}}

IncludedPaths ==
    {relevantFiles(args[2])[n].path : n \in 1..Len(relevantFiles(args[2]))}

AncestorPaths ==
    UNION { {SubSeq(path, 1, i) : i \in 1..(Len(path) - 1)} : path \in IncludedPaths }

NodesAt(type, path) ==
    {n \in 1..Len(returned.value) :
        returned.value[n].type = type /\ returned.value[n].path = path}

UnderParent(node) ==
    node.under = IF Parent(node.path) = <<>> THEN Null ELSE Some(Parent(node.path))

\* C35: the call builds a tree that holds every included file exactly once
\* under the folder of its parent path (at the root when it has none) and
\* exactly one folder for each ancestor path of an included file.
C35_TreeHoldsEveryFileOnce ==
    args # Null /\ args[1] = "cloneRepository" /\ returned # Null =>
        /\ ~returned.threw
        /\ \A path \in IncludedPaths : Cardinality(NodesAt("file", path)) = 1
        /\ \A path \in AncestorPaths : Cardinality(NodesAt("folder", path)) = 1
        /\ \A n \in 1..Len(returned.value) :
              /\ UnderParent(returned.value[n])
              /\ returned.value[n].type = "file" => returned.value[n].path \in IncludedPaths
              /\ returned.value[n].type = "folder" => returned.value[n].path \in AncestorPaths

(* ------------------- properties of the candidate list ------------------ *)
\* the calls that have listed their candidates
Listed(p) == calls[p].pc \in {"commit", "diff", "complete", "done"}

\* C32: the number of candidates of an ingest never exceeds the commitLimit
\* it was called with (a call that passes 0 runs as one that passes none).
C32_TotalWithinLimitPassed ==
    \A p \in Calls :
        Listed(p) => calls[p].result.totalCommits <= calls[p].limit

(* --------------- the pre-filter in front of the classifier ------------- *)
MaxListed == 3

\* the messages listed: each keyword of the filter alone and in the pairs
\* the filter looks for, at 10 characters, and a feature message of 9
ListedMessages ==
    { [len |-> MinMessageLength, has |-> has, semver |-> FALSE] :
        has \in { {}, {"add"}, {"merge"}, {"pull request"}, {"merge", "pull request"},
                  {"merge", "branch"}, {"update"}, {"dependency"},
                  {"update", "dependency"}, {"update", "package"},
                  {"format"}, {"style"}, {"lint"} } }
        \cup { [len |-> MinMessageLength - 1, has |-> {"add"}, semver |-> FALSE] }

\* the listings: commit n of a listing has sha n
Listings ==
    UNION { [1..n -> ListedMessages] : n \in 1..MaxListed }

ListedCommits(messages) ==
    [n \in 1..Len(messages) |->
        [sha |-> n, date |-> 0 - n, message |-> messages[n], files |-> Some(SrcFiles)]]

\* client.ts 187-188 and part_001 100: the listing is filtered, what is left
\* is classified
FilterAndClassify ==
    /\ args # Null
    /\ args[1] = "filterLearningCommits"
    /\ returned = Null
    /\ LET learningCommits == filterLearningCommits(args[2])
       IN  returned' = Returned([commits |-> learningCommits,
                                 analyses |-> analyzeCommits(learningCommits)])
    /\ UNCHANGED <<ingestVars, r2, sessionVars, taskVars, args>>

FilterInit ==
    /\ EmptyStores
    /\ args \in { <<"filterLearningCommits", ListedCommits(messages)>> :
                     messages \in Listings }
    /\ returned = Null

FilterNext == FilterAndClassify

FilterSpec == FilterInit /\ [][FilterNext]_vars

Filtered == args # Null /\ args[1] = "filterLearningCommits" /\ returned # Null

\* the four reasons the filter removes a commit for
RemovalReason(message) ==
    \/ "merge" \in message.has /\ ("pull request" \in message.has \/ "branch" \in message.has)
    \/ message.len < MinMessageLength
    \/ "update" \in message.has /\ ("dependency" \in message.has \/ "package" \in message.has)
    \/ "format" \in message.has \/ "style" \in message.has \/ "lint" \in message.has

\* C33: the filter removes exactly the commits with one of the four reasons
\* and keeps the others in the order of the listing; only the commits kept
\* are classified.
C33_FilterRemovesExactlyTheFour ==
    Filtered =>
        LET kept == returned.value.commits
            analyses == returned.value.analyses
        IN  /\ \A n \in 1..Len(args[2]) :
                  (\E k \in 1..Len(kept) : kept[k] = args[2][n])
                      <=> ~RemovalReason(args[2][n].message)
            /\ \A k \in 1..(Len(kept) - 1) : kept[k].sha < kept[k + 1].sha
            /\ Len(analyses) = Len(kept)
            /\ \A k \in 1..Len(kept) : analyses[k].sha = kept[k].sha

\* of a merge of a pull request, a plain merge and a feature commit, the
\* last two are kept in this order and classified
C33_Witness ==
    /\ Filtered
    /\ Len(args[2]) = 3
    /\ args[2][1].message.has = {"merge", "pull request"}
    /\ args[2][2].message.has = {"merge"}
    /\ args[2][3].message.has = {"add"}
    /\ Len(returned.value.commits) = 2
    /\ returned.value.analyses[1].sha = 2
    /\ returned.value.analyses[2].sha = 3

(* ---------------------- the order of the ingest loop ------------------ *)
\* the position of a sha in a list of commits, 0 when it is not there
PositionOf(sha, list) ==
    IF \E n \in 1..Len(list) : list[n].sha = sha
    THEN CHOOSE n \in 1..Len(list) : list[n].sha = sha
    ELSE 0

\* list is a subsequence of the first upTo entries of full, in the same order
InOrderWithin(list, full, upTo) ==
    /\ \A n \in 1..Len(list) : PositionOf(list[n].sha, full) \in 1..upTo
    /\ \A n \in 1..(Len(list) - 1) :
          PositionOf(list[n].sha, full) < PositionOf(list[n + 1].sha, full)

\* C34: the candidates are in the order of the listing; the loop takes them
\* one at a time in that order; result.commits is a subsequence of the
\* candidates taken so far, in the same order, whichever of them failed.
C34_LoopKeepsListingOrder ==
    /\ [](\A p \in Calls :
            LET c == calls[p]
            IN  Listed(p) =>
                  /\ InOrderWithin(c.githubCommits, Upstream(c.repoId[1][1], c.repoId[1][2]),
                                   Len(Upstream(c.repoId[1][1], c.repoId[1][2])))
                  /\ InOrderWithin(c.result.commits, c.githubCommits,
                                   IF c.pc = "diff" THEN c.i + 1 ELSE c.i))
    /\ [][\A p \in Calls :
            Listed(p) /\ Listed(p)' =>
                /\ calls'[p].githubCommits = calls[p].githubCommits
                /\ calls'[p].i \in {calls[p].i, calls[p].i + 1}
                /\ \E n \in 0..1 :
                      /\ Len(calls'[p].result.commits) = Len(calls[p].result.commits) + n
                      /\ SubSeq(calls'[p].result.commits, 1, Len(calls[p].result.commits))
                             = calls[p].result.commits]_vars

\* of the candidates 1, 3 and 4 the second failed: the result holds 1, then 4
C34_Witness ==
    \E p \in Calls :
        /\ calls[p].pc = "done"
        /\ Len(calls[p].githubCommits) = 3
        /\ Len(calls[p].result.errors) = 1
        /\ Len(calls[p].result.commits) = 2
        /\ calls[p].result.commits[1].sha = 1
        /\ calls[p].result.commits[2].sha = 4

(* ---------------------- who writes the analysis status --------------- *)
\* ingest and refresh calls on one set of stores: a seeded repository o/b with
\* a `completed` status, two addresses of o/r, and the address of o/b
StatusUrls ==
    { HttpsUrl("o", "r", FALSE),
      [prefix |-> "git@github.com:", owner |-> "o", repo |-> "r", git |-> TRUE],
      HttpsUrl("o", "b", FALSE) }

StatusLimits == {1}

\* two ingest calls and one refresh call
StatusCalls == {1, 2}
StatusRefreshes == {1}

StatusNext ==
    \/ \E p \in StatusCalls, u \in StatusUrls : Ingest(p, u)
    \/ \E p \in StatusCalls : CheckExisting(p)
    \/ \E p \in StatusCalls : FetchRepository(p)
    \/ \E p \in StatusCalls : CreateRepository(p)
    \/ \E p \in StatusCalls : SetAnalyzing(p)
    \/ \E p \in StatusCalls, lim \in StatusLimits : ListCommits(p, lim)
    \/ \E p \in StatusCalls : StoreCommit(p)
    \/ \E p \in StatusCalls : StoreDiff(p)
    \/ \E p \in StatusCalls : SetCompleted(p)
    \/ \E p \in StatusCalls : CatchStatus(p)
    \/ \E p \in StatusRefreshes, repoId \in RefreshRepoIds : RefreshStart(p, repoId)
    \/ \E p \in StatusRefreshes : RefreshGetRepository(p)
    \/ \E p \in StatusRefreshes : RefreshReadExisting(p)
    \/ \E p \in StatusRefreshes, lim \in StatusLimits : RefreshListCommits(p, lim)
    \/ \E p \in StatusRefreshes : RefreshStoreCommit(p)
    \/ \E p \in StatusRefreshes : RefreshStoreDiff(p)

StatusSpec == RefreshInit /\ [][StatusNext]_vars

\* the call that holds the repository row it inserted for id
CreatedRow(p, id) ==
    /\ calls[p].result.repository # Null
    /\ calls[p].result.repository[1].id = id

\* C36: the status of a repository is written only by the ingest call that
\* created its row (no refresh, no rejected ingest, no ingest that lost the
\* insert writes it), and it never goes from `completed` or `error` back to
\* `analyzing`.
C36_StatusWrittenOnlyByCreator ==
    /\ [](\A p \in Calls :
            calls[p].result.repository # Null =>
                /\ calls[p].result.repository[1] \in BagToSet(repositories)
                /\ \A q \in Calls \ {p} :
                      ~CreatedRow(q, calls[p].result.repository[1].id))
    /\ [][\A p \in Calls :
            calls[p].result.repository = Null /\ calls'[p].result.repository # Null =>
                /\ calls[p].pc = "create"
                /\ calls'[p].result.repository[1] \notin BagToSet(repositories)
                /\ calls'[p].result.repository[1] \in BagToSet(repositories')]_vars
    /\ [][\A id \in RefreshRepoIds :
            getAnalysisStatus(id)' # getAnalysisStatus(id) =>
                /\ refreshes' = refreshes
                /\ \E p \in Calls : CreatedRow(p, id) /\ calls'[p] # calls[p]]_vars
    /\ [][\A id \in RefreshRepoIds :
            StatusOf(id) \in {"completed", "error"} => StatusOf(id)' # "analyzing"]_vars

\* o/r was ingested by one call and refreshed, and the other call lost the
\* insert of o/r under its second address: the status of o/r is the one its
\* creator wrote, and the status of o/b is the seeded one
C36_Witness ==
    \E p \in Calls, q \in Calls, f \in Refreshes :
        /\ calls[p].pc = "done"
        /\ CreatedRow(p, RepoId("o", "r"))
        /\ calls[q].pc = "failed"
        /\ calls[q].repoId = Some(RepoId("o", "r"))
        /\ calls[q].error = "D1 constraint failed"
        /\ refreshes[f].pc = "done"
        /\ refreshes[f].repoId = Some(RepoId("o", "r"))
        /\ StatusOf(RepoId("o", "r")) = "completed"
        /\ StatusOf(RepoId("o", "b")) = "completed"

(* ---------------------- after a failed ingest ------------------------- *)
\* the call failed after it had written the repository row
FailedAfterRow(p) ==
    /\ calls[p].pc = "failed"
    /\ calls[p].result.repository # Null

TutorialComplete(tutorialId) ==
    /\ \E row \in BagToSet(tutorials) : row.id = tutorialId
    /\ TutorialContentKey(tutorialId) \in DOMAIN r2

\* C40: startSession creates a session row only for a tutorial whose row and
\* content blob both exist; for a missing tutorial and for a tutorial row
\* without content it throws the not-found error and creates no session.
C40_StartSessionNeedsRowAndContent ==
    /\ [](\A n \in DOMAIN learner_sessions :
            TutorialComplete(learner_sessions[n].tutorial_id))
    /\ [][\A tutorialId \in TutorialIds :
            CallStartSession(tutorialId) =>
                IF TutorialComplete(tutorialId)
                THEN learner_sessions' # learner_sessions =>
                        /\ Len(learner_sessions') = Len(learner_sessions) + 1
                        /\ learner_sessions'[Len(learner_sessions')].tutorial_id = tutorialId
                        /\ ~returned'.threw
                ELSE /\ learner_sessions' = learner_sessions
                     /\ returned'.threw
                     /\ returned'.error =
                           IF \E row \in BagToSet(tutorials) : row.id = tutorialId
                           THEN "Tutorial content not found"
                           ELSE "Tutorial not found"]_vars

\* a session exists, and the last call was a startSession on the tutorial
\* whose row has no content blob: it threw and the table has one session
C40_Witness ==
    /\ args = <<"startSession", 0>>
    /\ \E row \in BagToSet(tutorials) : row.id = 0
    /\ TutorialContentKey(0) \notin DOMAIN r2
    /\ returned = Threw("Tutorial content not found")
    /\ Len(learner_sessions) = 1

(* ---------------------- health checks running together --------------- *)
\* a healthCheck call between its requests; all requests succeed here
IdleHealthCheck ==
    [pc |-> "idle", store |-> "",
     results |-> [database |-> FALSE, kv |-> FALSE, r2 |-> FALSE, vectorize |-> FALSE]]

\* r2.ts lines 285-297: the results record, database.listRepositories
HealthDatabase(p) ==
    /\ calls[p].pc = "idle"
    /\ calls' = [calls EXCEPT ![p] =
          [@ EXCEPT !.results.database = TRUE, !.pc = "put", !.store = "kv"]]
    /\ UNCHANGED <<repositories, commits, kv, r2, vectors, sessionVars, taskVars, callVars>>

\* lines 300 and 309: kv.set('health-check', 'ok', 60), r2.put('health-check', 'ok')
ProbePut(p, store) ==
    /\ calls[p].pc = "put"
    /\ calls[p].store = store
    /\ kv' = IF store = "kv" THEN Put(kv, HealthKey, "ok") ELSE kv
    /\ r2' = IF store = "r2" THEN Put(r2, HealthKey, "ok") ELSE r2
    /\ calls' = [calls EXCEPT ![p] = [@ EXCEPT !.pc = "get"]]
    /\ UNCHANGED <<repositories, commits, vectors, sessionVars, taskVars, callVars>>

\* lines 301-302 and 310-311: read the probe key back and assign the flag:
\* value === 'ok' for kv, object !== null for r2
ProbeGet(p, store) ==
    /\ calls[p].pc = "get"
    /\ calls[p].store = store
    /\ LET flag == IF store = "kv"
                   THEN HealthKey \in DOMAIN kv /\ kv[HealthKey] = "ok"
                   ELSE HealthKey \in DOMAIN r2
       IN  calls' = [calls EXCEPT ![p] =
              [@ EXCEPT !.results[store] = flag, !.pc = "delete"]]
    /\ UNCHANGED <<repositories, commits, kv, r2, vectors, sessionVars, taskVars, callVars>>

\* lines 303 and 312: delete the probe key
ProbeDelete(p, store) ==
    /\ calls[p].pc = "delete"
    /\ calls[p].store = store
    /\ kv' = IF store = "kv" THEN Drop(kv, HealthKey) ELSE kv
    /\ r2' = IF store = "r2" THEN Drop(r2, HealthKey) ELSE r2
    /\ calls' = [calls EXCEPT ![p] =
          IF store = "kv" THEN [@ EXCEPT !.pc = "put", !.store = "r2"]
          ELSE [@ EXCEPT !.pc = "vectorize", !.store = ""]]
    /\ UNCHANGED <<repositories, commits, vectors, sessionVars, taskVars, callVars>>

\* lines 316-323: vectorize.getIndexStats, return results
HealthVectorize(p) ==
    /\ calls[p].pc = "vectorize"
    /\ calls' = [calls EXCEPT ![p] =
          [@ EXCEPT !.results.vectorize = TRUE, !.pc = "done"]]
    /\ UNCHANGED <<repositories, commits, kv, r2, vectors, sessionVars, taskVars, callVars>>

ProbedStores == {"kv", "r2"}

\* what the two stores hold besides the probe key
HealthBlobs == {{}, {DiffKey(RepoId("o", "r"), 1)}}
HealthKeys == {{}, {AnalysisKey(RepoId("o", "r"))}}

HealthInit ==
    /\ repositories = EmptyBag
    /\ commits = EmptyBag
    /\ vectors = {}
    /\ calls = [p \in Calls |-> IdleHealthCheck]
    /\ tutorials = EmptyBag
    /\ learner_sessions = <<>>
    /\ now = 0
    /\ ops = EmptyBag
    /\ walk = <<>>
    /\ refreshes = <<>>
    /\ gens = <<>>
    /\ clones = <<>>
    /\ r2 \in { [key \in blobs |-> "object"] : blobs \in HealthBlobs }
    /\ kv \in { [key \in keys |-> "value"] : keys \in HealthKeys }
    /\ args = Null
    /\ returned = Null

HealthNext ==
    \/ \E p \in Calls : HealthDatabase(p)
    \/ \E p \in Calls, store \in ProbedStores : ProbePut(p, store)
    \/ \E p \in Calls, store \in ProbedStores : ProbeGet(p, store)
    \/ \E p \in Calls, store \in ProbedStores : ProbeDelete(p, store)
    \/ \E p \in Calls : HealthVectorize(p)

HealthSpec == HealthInit /\ [][HealthNext]_vars

\* C39: with all four stores working, every healthCheck call that has
\* returned reports all four stores healthy, also when calls overlap.
C39_WorkingStoresReportHealthy ==
    \A p \in Calls :
        calls[p].pc = "done" =>
            /\ calls[p].results.database
            /\ calls[p].results.kv
            /\ calls[p].results.r2
            /\ calls[p].results.vectorize

(* ---------------------- references between the stores ----------------- *)
\* one ingest, one refresh, one generate and one cleanup on one set of
\* stores, one after the other in any order, every write failing or not
GenQuiescent == \A p \in Gens : gens[p].pc \in {"idle", "done", "failed"}

ReferenceGens == {1}

ReferenceCommitIds == { <<RepoId("o", "b"), 1>>, <<RepoId("o", "r"), 1>> }

ReferenceResponses ==
    { AIText(TRUE, AIJson(Some("T"), Some("D"), Some(StepsArray(<<AIStep("s1")>>)))),
      AIText(TRUE, AIJson(Some("T"), Some("D"), Some(NotAnArray))) }

\* the cleanup of the run: its operation, its id, the request that fails
ReferenceCleanups ==
    { <<"cleanupRepositoryData", RepoId("o", "r"), failAt>> : failAt \in {0, 3} }
       \cup { <<"cleanupTutorialData", 1, failAt>> : failAt \in {0, 2} }

ReferenceIngest(p, u) == GenQuiescent /\ RefreshIngest(p, u)

ReferenceRefresh(p, repoId) == GenQuiescent /\ RefreshStart(p, repoId)

ReferenceGenerate(p, commitId) ==
    IngestQuiescent /\ RefreshQuiescent /\ GenStart(p, commitId)

ReferenceCleanup == IngestQuiescent /\ RefreshQuiescent /\ GenQuiescent /\ Cleanup

ReferenceInit ==
    /\ repositories = SetToBag({SeededRepository})
    /\ commits = SeededCommits(0)
    /\ kv = (AnalysisKey(RepoId("o", "b")) :>
                AnalysisStatus(RepoId("o", "b"), "completed", ""))
    /\ r2 = <<>>
    /\ vectors = {}
    /\ calls = [p \in Calls |-> IdleCall]
    /\ tutorials = EmptyBag
    /\ learner_sessions = <<>>
    /\ now = 0
    /\ ops = EmptyBag
    /\ walk = <<>>
    /\ refreshes = [p \in Refreshes |-> IdleRefresh]
    /\ gens = [p \in Gens |-> IdleGen]
    /\ clones = [p \in Clones |-> IdleClone]
    /\ args \in ReferenceCleanups
    /\ returned = Null

ReferenceNext ==
    \/ \E p \in RefreshIngestCalls, u \in RefreshIngestUrls : ReferenceIngest(p, u)
    \/ \E p \in RefreshIngestCalls : CheckExisting(p)
    \/ \E p \in RefreshIngestCalls : FetchRepository(p)
    \/ \E p \in RefreshIngestCalls : CreateRepository(p)
    \/ \E p \in RefreshIngestCalls : SetAnalyzing(p)
    \/ \E p \in RefreshIngestCalls, lim \in StatusLimits : ListCommits(p, lim)
    \/ \E p \in RefreshIngestCalls : StoreCommit(p)
    \/ \E p \in RefreshIngestCalls : StoreDiff(p)
    \/ \E p \in RefreshIngestCalls : SetCompleted(p)
    \/ \E p \in RefreshIngestCalls : CatchStatus(p)
    \/ \E p \in Refreshes, repoId \in RefreshRepoIds : ReferenceRefresh(p, repoId)
    \/ \E p \in Refreshes : RefreshGetRepository(p)
    \/ \E p \in Refreshes : RefreshReadExisting(p)
    \/ \E p \in Refreshes, lim \in StatusLimits : RefreshListCommits(p, lim)
    \/ \E p \in Refreshes : RefreshStoreCommit(p)
    \/ \E p \in Refreshes : RefreshStoreDiff(p)
    \/ \E p \in ReferenceGens, commitId \in ReferenceCommitIds : ReferenceGenerate(p, commitId)
    \/ \E p \in ReferenceGens : GenFindCommit(p)
    \/ \E p \in ReferenceGens : GenGetRepository(p)
    \/ \E p \in ReferenceGens : GenGetCommitDetails(p)
    \/ \E p \in ReferenceGens : GenGetRepoTree(p)
    \/ \E p \in ReferenceGens : GenFetchFile(p)
    \/ \E p \in ReferenceGens : GenAnalyzeCodebase(p)
    \/ \E p \in ReferenceGens, response \in ReferenceResponses : GenTutorialContent(p, response)
    \/ \E p \in ReferenceGens : GenCreateTutorial(p)
    \/ \E p \in ReferenceGens : GenStoreContent(p)
    \/ ReferenceCleanup

ReferenceSpec == ReferenceInit /\ [][ReferenceNext]_vars

\* C37: every diff blob of repoId and sha has the commit row repoId:sha, and
\* every tutorial content blob has the tutorial row of its id, whatever
\* ingest, refresh, generate and cleanup did and whichever writes failed.
C37_BlobsHaveTheirRows ==
    \A key \in DOMAIN r2 :
        /\ key[1] = "repos" =>
              \E row \in BagToSet(commits) :
                  row.id = <<key[2], key[4]>> /\ row.repo_id = key[2] /\ row.sha = key[4]
        /\ key[1] = "tutorials" =>
              \E row \in BagToSet(tutorials) : row.id = key[2]

\* all four operations ran: a diff blob is stored next to its commit row, and
\* the cleanup took the content blob of the generated tutorial and left its
\* row, so the reference holds in the one direction only
C37_Witness ==
    /\ args[1] = "cleanupTutorialData"
    /\ returned # Null
    /\ ~returned.threw
    /\ calls[1].pc = "done"
    /\ refreshes[1].pc = "done"
    /\ gens[1].pc = "done"
    /\ \E key \in DOMAIN r2 : key[1] = "repos"
    /\ \E row \in BagToSet(tutorials) : TutorialContentKey(row.id) \notin DOMAIN r2

====
